---- MODULE Spec2Model ----
(***************************************************************************)
(* Model of the HTTP client wrapper of xsssql/tools, src/tools/http.go.    *)
(* The file holds three successive revisions of the package; the model     *)
(* follows the last one (lines 539-892): HttpUrl, formatHeaders and        *)
(* HttpUrlStruct.                                                          *)
(*                                                                         *)
(* Text is a sequence of one-character strings, a body is a sequence of    *)
(* byte values.  A Go slice or map that may be nil is a record             *)
(* [isNil, data]; a *HttpResponse that may be nil carries isNil as well.   *)
(***************************************************************************)
EXTENDS Integers, Sequences, FiniteSets, TLC

\* ------------------------------------------------------------------ bounds
\* Longest body the connection delivers.
MaxBody == 4
\* Byte values are 0 .. NumBytes-1.
NumBytes == 2
\* Width in bits of the modelled int64 (TLC's integers are 32 bits wide; the
\* wrap-around of MaxResponseSize + 1 at the top of the range is kept).
IntBits == 29
\* Callers and calls of the concurrent specification.
NumCallers == 2
MaxCalls == 3

\* --------------------------------------------------------------- constants
\* bufio.MaxScanTokenSize, the longest line bufio.Scanner accepts.
MaxScanTokenSize == 65536
\* 200 * 1024 * 1024
DefaultMaxResponseSize == 209715200
\* The default Timeout of HttpUrlStruct, in seconds.
DefaultTimeout == 30

\* ------------------------------------------------------------------- int64
MaxInt64 == 2 ^ (IntBits - 1) - 1
MinInt64 == 0 - 2 ^ (IntBits - 1)
\* Go's signed addition wraps around.
Add64(a, b) == ((a + b - MinInt64) % (2 ^ IntBits)) + MinInt64

\* -------------------------------------------------------------------- text
\* A run of MaxScanTokenSize ordinary characters, written as one element.
RUN == "<64KiB>"
BEL == "<0x07>"
Weight(c) == IF c = RUN THEN MaxScanTokenSize ELSE 1
RECURSIVE ByteLen(_)
ByteLen(s) == IF s = <<>> THEN 0 ELSE Weight(Head(s)) + ByteLen(Tail(s))

LowerLetters == <<"a", "b", "c", "d", "e", "f", "g", "h", "i", "j", "k", "l", "m", "n", "o", "p", "q", "r", "s", "t", "u", "v", "w", "x", "y", "z">>
UpperLetters == <<"A", "B", "C", "D", "E", "F", "G", "H", "I", "J", "K", "L", "M", "N", "O", "P", "Q", "R", "S", "T", "U", "V", "W", "X", "Y", "Z">>
Digits == {"0", "1", "2", "9"}
LetterIx == 1 .. Len(LowerLetters)
IsLower(c) == \E i \in LetterIx : LowerLetters[i] = c
IsUpper(c) == \E i \in LetterIx : UpperLetters[i] = c
ToUpper(c) == IF IsLower(c) THEN UpperLetters[CHOOSE i \in LetterIx : LowerLetters[i] = c] ELSE c
ToLower(c) == IF IsUpper(c) THEN LowerLetters[CHOOSE i \in LetterIx : UpperLetters[i] = c] ELSE c
\* unicode.IsSpace on the characters of the model.
IsSpace(c) == c \in {" ", "\t", "\r", "\n"}
\* A control character: code point < 32 or 127.
IsCtl(c) == c \in {BEL, "\t", "\r", "\n"}
\* httpguts.IsTokenRune
IsTokenChar(c) == IsLower(c) \/ IsUpper(c) \/ c \in Digits \/ c \in {"-", RUN}

Min(a, b) == IF a < b THEN a ELSE b
\* strings.Index for a one-character separator: 0 when absent.
IndexOf(s, c) == IF \E i \in 1 .. Len(s) : s[i] = c
                 THEN CHOOSE i \in 1 .. Len(s) : s[i] = c /\ \A j \in 1 .. (i - 1) : s[j] # c
                 ELSE 0
\* strings.Split(s, sep) for a one-character separator.
RECURSIVE Split(_, _)
Split(s, sep) == LET i == IndexOf(s, sep)
                 IN IF i = 0 THEN <<s>>
                    ELSE <<SubSeq(s, 1, i - 1)>> \o Split(SubSeq(s, i + 1, Len(s)), sep)
\* strings.TrimSpace
TrimSpace(s) == LET keep == {i \in 1 .. Len(s) : ~IsSpace(s[i])}
                IN IF keep = {} THEN <<>>
                   ELSE SubSeq(s, CHOOSE i \in keep : \A j \in keep : i <= j,
                                  CHOOSE i \in keep : \A j \in keep : i >= j)
\* strings.SplitN(line, ":", 2): one part without a colon, else two.
SplitN2(line) == LET i == IndexOf(line, ":")
                 IN IF i = 0 THEN <<line>>
                    ELSE <<SubSeq(line, 1, i - 1), SubSeq(line, i + 1, Len(line))>>
\* bufio.ScanLines: the lines of the text without their "\n" and a trailing
\* "\r"; no token for the empty rest after a final "\n".
ScanLines(text) == LET parts == Split(text, "\n")
                       n == IF parts[Len(parts)] = <<>> THEN Len(parts) - 1 ELSE Len(parts)
                       dropCR(l) == IF l # <<>> /\ l[Len(l)] = "\r" THEN SubSeq(l, 1, Len(l) - 1) ELSE l
                   IN [i \in 1 .. n |-> dropCR(parts[i])]
\* bufio.Scanner.Err after the loop: ErrTooLong when a line does not fit the
\* scanner's buffer.
ScannerErr(text) == LET parts == Split(text, "\n")
                    IN \E i \in 1 .. Len(parts) : ByteLen(parts[i]) >= MaxScanTokenSize
\* textproto.CanonicalMIMEHeaderKey: a key holding a non-token byte is left as
\* it is; otherwise the first letter and every letter after "-" is upper-cased
\* and the others lower-cased.
CanonicalMIMEHeaderKey(k) == IF \E i \in 1 .. Len(k) : ~IsTokenChar(k[i]) THEN k
                             ELSE [i \in 1 .. Len(k) |->
                                     IF i = 1 \/ k[i - 1] = "-" THEN ToUpper(k[i]) ELSE ToLower(k[i])]

\* ------------------------------------------------------------ http.Header
\* A header is a function from canonical keys to sequences of values.
EmptyHeader == [k \in {} |-> <<>>]
\* http.Header.Set: the key's values are replaced by the one value.
HeaderSet(h, key, value) == LET ck == CanonicalMIMEHeaderKey(key)
                            IN [k \in DOMAIN h \cup {ck} |-> IF k = ck THEN <<value>> ELSE h[k]]
\* http.Header.Get: the first value of the canonical key, "" when absent.
HeaderGet(h, key) == LET ck == CanonicalMIMEHeaderKey(key)
                     IN IF ck \in DOMAIN h /\ h[ck] # <<>> THEN h[ck][1] ELSE <<>>

\* ------------------------------------------------------------ text values
T_Cookie == <<"C", "o", "o", "k", "i", "e">>
T_ContentEncoding == <<"C", "o", "n", "t", "e", "n", "t", "-", "E", "n", "c", "o", "d", "i", "n", "g">>
T_gzip == <<"g", "z", "i", "p">>
T_deflate == <<"d", "e", "f", "l", "a", "t", "e">>
T_br == <<"b", "r">>
T_zstd == <<"z", "s", "t", "d">>
T_GET == <<"G", "E", "T">>
CRLF == <<"\r", "\n">>

\* ----------------------------------------------------------- net/url, http
\* url.Parse: a control character or a leading colon (no scheme) is an error.
UrlParseErr(s) == \/ \E i \in 1 .. Len(s) : IsCtl(s[i])
                  \/ (s # <<>> /\ s[1] = ":")
\* http.NewRequest: the method must be empty (GET) or a token, the URL must parse.
NewRequestErr(method, urlStr) == \/ \E i \in 1 .. Len(method) : ~IsTokenChar(method[i])
                                 \/ UrlParseErr(urlStr)
\* httpguts.ValidHeaderFieldName / ValidHeaderFieldValue, which
\* http.Transport.RoundTrip checks before anything is written.
ValidHeaderFieldName(k) == k # <<>> /\ \A i \in 1 .. Len(k) : IsTokenChar(k[i])
ValidHeaderFieldValue(v) == \A i \in 1 .. Len(v) : (IsCtl(v[i]) => v[i] = "\t")
RoundTripRejects(h) == \E k \in DOMAIN h :
                          \/ ~ValidHeaderFieldName(k)
                          \/ \E i \in 1 .. Len(h[k]) : ~ValidHeaderFieldValue(h[k][i])

\* ------------------------------------------------- request headers, cookie
\* Lines 676-679: the explicit cookie string becomes the Cookie header.
SetCookieHeader(h, cookieGo) == IF cookieGo # <<>> THEN HeaderSet(h, T_Cookie, cookieGo) ELSE h
\* Lines 685-688: one line of the header text.
ApplyHeaderLine(h, line) == LET parts == SplitN2(line)
                            IN IF Len(parts) = 2
                               THEN HeaderSet(h, TrimSpace(parts[1]), TrimSpace(parts[2]))
                               ELSE h
RECURSIVE ApplyHeaderLines(_, _)
ApplyHeaderLines(h, lines) == IF lines = <<>> THEN h
                              ELSE ApplyHeaderLines(ApplyHeaderLine(h, Head(lines)), Tail(lines))
\* Lines 676-689: the header of the outgoing request.
RequestHeader(cookieGo, headersTextGo) ==
    ApplyHeaderLines(SetCookieHeader(EmptyHeader, cookieGo), ScanLines(headersTextGo))

\* ----------------------------------------------------------- body, codecs
ByteVals == 0 .. (NumBytes - 1)
Rot(b) == (b + 1) % NumBytes
UnRot(b) == (b + NumBytes - 1) % NumBytes
RECURSIVE Sum(_)
Sum(p) == IF p = <<>> THEN 0 ELSE (Head(p) + Sum(Tail(p))) % NumBytes
MapRot(p) == [i \in 1 .. Len(p) |-> Rot(p[i])]
MapUnRot(p) == [i \in 1 .. Len(p) |-> UnRot(p[i])]
\* A compressed frame: an optional magic byte, the transformed payload, a
\* checksum byte.  gzip and zlib read the magic when the reader is created;
\* zstd reads it with the stream; brotli has none.
Frame(magic, p) == magic \o MapRot(p) \o <<Sum(p)>>
\* The payload of a frame, or an error.
Unframe(magic, b) == LET n == Len(magic)
                         p == MapUnRot(SubSeq(b, n + 1, Len(b) - 1))
                     IN IF Len(b) < n + 1 \/ SubSeq(b, 1, n) # magic \/ b[Len(b)] # Sum(p)
                        THEN [err |-> TRUE, data |-> <<>>]
                        ELSE [err |-> FALSE, data |-> p]
GzipMagic == <<1>>
ZlibMagic == <<0>>
ZstdMagic == <<1, 0>>
\* gzip.NewReader / zlib.NewReader: the header is read at once.
GzipNewReaderErr(b) == Len(b) < 1 \/ SubSeq(b, 1, 1) # GzipMagic
ZlibNewReaderErr(b) == Len(b) < 1 \/ SubSeq(b, 1, 1) # ZlibMagic
\* zstd.NewReader(r) without options reads nothing and returns no error.
ZstdNewReaderErr(b) == FALSE
\* io.ReadAll of the decoder.
GzipReadAll(b) == Unframe(GzipMagic, b)
ZlibReadAll(b) == Unframe(ZlibMagic, b)
BrotliReadAll(b) == Unframe(<<>>, b)
ZstdReadAll(b) == Unframe(ZstdMagic, b)

\* Lines 709-710: io.ReadAll of io.LimitedReader{R: resp.Body, N: n0}.  The
\* connection delivers `wire` and then ends, with io.EOF or (endErr) with an
\* error; errWithData: the Read that returns the last bytes returns the error
\* too.  The LimitedReader asks for at most N bytes and answers io.EOF itself
\* once N <= 0.  The result: the bytes read, whether ReadAll returned an
\* error, and what is left of N.
ReadAllLimited(wire, endErr, errWithData, n0) ==
    IF n0 <= 0 THEN [body |-> <<>>, err |-> FALSE, N |-> n0]
    ELSE IF Len(wire) > n0 THEN [body |-> SubSeq(wire, 1, n0), err |-> FALSE, N |-> 0]
    ELSE IF Len(wire) = n0 THEN [body |-> wire, err |-> endErr /\ errWithData, N |-> 0]
    ELSE [body |-> wire, err |-> endErr, N |-> n0 - Len(wire)]
\* The capacity of the slice io.ReadAll returns: 512 at least.
ReadAllCap(body) == IF Len(body) > 512 THEN Len(body) ELSE 512

\* ---------------------------------------------------------------- HttpUrl
NoErr == "nil"
NilBytes == [isNil |-> TRUE, data |-> <<>>]
Bytes(b) == [isNil |-> FALSE, data |-> b]
\* Lines 585-595 and 629-637: the zero-valued response.
newEmptyResponse == [isNil |-> FALSE, StatusCode |-> 0, Proto |-> <<>>, Status |-> <<>>,
                     Headers |-> [isNil |-> FALSE, data |-> EmptyHeader],
                     StatusLine |-> <<>>, RawHeaders |-> <<>>, Body |-> Bytes(<<>>)]
\* A nil *HttpResponse.
NilResponse == [newEmptyResponse EXCEPT !.isNil = TRUE]

\* Lines 849-857: one "Key: Value\r\n" line per value, the keys in the order
\* the map iteration yields them (order: a sequence of the keys).
\* The inner loop stopping after the first value.
HeaderLinesFirstOnly(k, vals) == IF vals = <<>> THEN <<>>
                                 ELSE k \o <<":", " ">> \o Head(vals) \o <<"\r", "\n">>
RECURSIVE HeaderLines(_, _)
HeaderLines(k, vals) == IF vals = <<>> THEN <<>>
                        ELSE k \o <<":", " ">> \o Head(vals) \o CRLF \o HeaderLines(k, Tail(vals))
RECURSIVE formatHeaders(_, _)
formatHeaders(headers, order) == IF order = <<>> THEN <<>>
                                 ELSE HeaderLines(Head(order), headers[Head(order)])
                                      \o formatHeaders(headers, Tail(order))
\* fmt.Sprintf("%s %s\r\n", resp.Proto, resp.Status)
StatusLineOf(resp) == resp.Proto \o <<" ">> \o resp.Status \o CRLF
\* ResponseOf with the status code forgotten.
ResponseOfNoStatus(resp, order, body) == [isNil |-> FALSE, StatusCode |-> 0,
                                          Proto |-> resp.Proto, Status |-> resp.Status,
                                          Headers |-> [isNil |-> FALSE, data |-> resp.Header],
                                          StatusLine |-> resp.Proto \o <<" ">> \o resp.Status \o CRLF,
                                          RawHeaders |-> formatHeaders(resp.Header, order),
                                          Body |-> Bytes(body)]
\* The response literal of lines 713-721, 725-733, ..., 837-845.
ResponseOf(resp, order, body) == [isNil |-> FALSE, StatusCode |-> resp.StatusCode,
                                  Proto |-> resp.Proto, Status |-> resp.Status,
                                  Headers |-> [isNil |-> FALSE, data |-> resp.Header],
                                  StatusLine |-> StatusLineOf(resp),
                                  RawHeaders |-> formatHeaders(resp.Header, order),
                                  Body |-> Bytes(body)]
\* What a call hands back: it returns (err, resp) or it panics.
Returned(err, resp) == [kind |-> "return", err |-> err, resp |-> resp]
Panicked == [kind |-> "panic", err |-> "slice bounds out of range", resp |-> NilResponse]

\* Lines 639-642.
\* The default applied to 0 alone.
EffectiveMaxResponseSizeZeroOnly(m) == IF m = 0 THEN DefaultMaxResponseSize ELSE m
EffectiveMaxResponseSize(m) == IF m < 1 THEN DefaultMaxResponseSize ELSE m
\* Lines 644-646.
EffectivePostData(p) == IF p.isNil THEN Bytes(<<>>) ELSE p

\* Lines 736-831: the decompression switch, on the exact header value.
\* Decoding gives the error of the failing step and the body to return.
\* DecodeStep returning the compressed bytes on every failure.
DecodeStepKeepsBody(readerErr, readAll, body, name) ==
    IF readerErr THEN [err |-> name \o " reader", body |-> body]
    ELSE IF readAll.err THEN [err |-> name \o " read", body |-> body]
    ELSE [err |-> NoErr, body |-> readAll.data]
DecodeStep(readerErr, readAll, body, name) ==
    IF readerErr THEN [err |-> name \o " reader", body |-> body]
    ELSE IF readAll.err THEN [err |-> name \o " read", body |-> <<>>]
    ELSE [err |-> NoErr, body |-> readAll.data]
Decompress(encoding, body) ==
    IF encoding = T_gzip THEN DecodeStep(GzipNewReaderErr(body), GzipReadAll(body), body, "gzip")
    ELSE IF encoding = T_deflate THEN DecodeStep(ZlibNewReaderErr(body), ZlibReadAll(body), body, "deflate")
    ELSE IF encoding = T_br THEN DecodeStep(FALSE, BrotliReadAll(body), body, "brotli")
    ELSE IF encoding = T_zstd THEN DecodeStep(ZstdNewReaderErr(body), ZstdReadAll(body), body, "zstd")
    ELSE [err |-> NoErr, body |-> body]

\* Lines 708-846: from the response client.Do returned to the result.
\* e: what the connection does (wire, endErr, errWithData) and the order in
\* which formatHeaders' map iteration yields the keys.
ReadResponse(maxSize, resp, e) ==
    LET rd == ReadAllLimited(e.wire, e.endErr, e.errWithData, Add64(maxSize, 1))
        dec == Decompress(HeaderGet(resp.Header, T_ContentEncoding), rd.body)
    IN IF rd.err THEN Returned("reading body", ResponseOf(resp, e.order, rd.body))
       ELSE IF rd.N <= 0
            THEN IF maxSize > ReadAllCap(rd.body) THEN Panicked
                 ELSE Returned("response exceeds max size",
                               ResponseOf(resp, e.order, SubSeq(rd.body, 1, maxSize)))
       ELSE IF dec.err # NoErr THEN Returned(dec.err, ResponseOf(resp, e.order, dec.body))
       ELSE Returned(NoErr, ResponseOf(resp, e.order, dec.body))

\* Lines 665-668 and 694-699: the client of the call and its transport
\* (lines 649-658).
ClientOf(a) == [Transport |-> [InsecureSkipVerify |-> a.ignoreCertErrors, Proxy |-> a.proxyGo],
                Timeout |-> a.timeout,
                CheckRedirect |-> IF a.allowRedirects THEN "default" ELSE "ErrUseLastResponse"]
\* Lines 648-692: the error that ends the call before client.Do, if any.
EarlyErr(a, e) ==
    IF a.proxyGo # <<>> /\ UrlParseErr(a.proxyGo) THEN "parsing proxy URL"
    ELSE IF e.h2Fail THEN "http2 configure"
    ELSE IF NewRequestErr(a.method, a.urlStr) THEN "new request"
    ELSE IF ScannerErr(a.headersTextGo) THEN "parsing headers"
    ELSE NoErr
\* Line 702: client.Do fails when the transport rejects the request's header
\* or the network fails.
DoErr(a, e) == RoundTripRejects(RequestHeader(a.cookieGo, a.headersTextGo)) \/ e.sendFail
\* HttpUrl as the revision before it was (lines 326-478): nil on every error
\* before the response.
HttpUrlNilOnError(a, e) ==
    IF EarlyErr(a, e) # NoErr THEN Returned(EarlyErr(a, e), NilResponse)
    ELSE IF DoErr(a, e) THEN Returned("sending request", NilResponse)
    ELSE ReadResponse(EffectiveMaxResponseSize(a.MaxResponseSize), e.resp, e)
\* Lines 616-846.  a: the arguments; e: the environment of the call (whether
\* http2.ConfigureTransport and client.Do fail, the response, the body).
HttpUrl(a, e) ==
    LET response == newEmptyResponse
        maxSize == EffectiveMaxResponseSize(a.MaxResponseSize)
    IN IF EarlyErr(a, e) # NoErr THEN Returned(EarlyErr(a, e), response)
       ELSE IF DoErr(a, e) THEN Returned("sending request", response)
       ELSE ReadResponse(maxSize, e.resp, e)

\* Lines 865-877: the defaults HttpUrlStruct writes into *req.
\* The defaults without the one of Timeout.
StructDefaultsKeepTimeout(req) ==
    [req EXCEPT !.PostData = IF @.isNil THEN Bytes(<<>>) ELSE @,
                !.MaxResponseSize = IF @ < 1 THEN DefaultMaxResponseSize ELSE @]
StructDefaults(req) == [req EXCEPT !.PostData = IF @.isNil THEN Bytes(<<>>) ELSE @,
                                   !.Timeout = IF @ <= 0 THEN DefaultTimeout ELSE @,
                                   !.MaxResponseSize = IF @ < 1 THEN DefaultMaxResponseSize ELSE @]
\* Lines 880-891: the arguments HttpUrlStruct passes on.
StructArgs(req) == [urlStr |-> req.URL, method |-> req.Method, postData |-> req.PostData,
                    cookieGo |-> req.Cookie, headersTextGo |-> req.Headers,
                    allowRedirects |-> req.AllowRedirects, proxyGo |-> req.Proxy,
                    timeout |-> req.Timeout, MaxResponseSize |-> req.MaxResponseSize,
                    ignoreCertErrors |-> req.IgnoreCertErrors]
\* Lines 860-892.
HttpUrlStruct(req, e) ==
    IF req.isNil THEN Returned("req is nil", newEmptyResponse)
    ELSE HttpUrl(StructArgs(StructDefaults(req)), e)

\* ----------------------------------------------------------------- inputs
\* Longest header text, in lines.
MaxLines == 2
L_Cookie == <<"C", "o", "o", "k", "i", "e", ":", " ", "a", "=", "1", ";", " ", "b", "=", "2">>
L_cookie == <<"c", "o", "o", "k", "i", "e", ":", "x", "=", "0">>
L_XA1 == <<"X", "-", "A", ":", " ", "1">>
L_XA2 == <<"X", "-", "A", ":", " ", "2">>
L_NoColon == <<"a", "b", "c">>
L_EmptyKey == <<":", " ", "v">>
L_Accept == <<" ", "A", "c", "c", "e", "p", "t", " ", ":", " ", "g", "z", "i", "p", "\r">>
L_TooLong == <<RUN>>
L_CtlValue == <<"X", "-", "B", ":", " ", BEL>>
L_CookieCtl == <<"C", "o", "o", "k", "i", "e", ":", " ", "d", "=", "4", BEL>>
HeaderLineChoices == {L_Cookie, L_cookie, L_XA1, L_XA2, L_NoColon, L_EmptyKey, L_Accept,
                      L_TooLong, L_CtlValue, L_CookieCtl}
RECURSIVE Join(_)
Join(ls) == IF ls = <<>> THEN <<>>
            ELSE IF Len(ls) = 1 THEN ls[1]
            ELSE ls[1] \o <<"\n">> \o Join(Tail(ls))
HeaderTexts == {Join(ls) : ls \in UNION {[1 .. n -> HeaderLineChoices] : n \in 0 .. MaxLines}}
C_b9 == <<"b", "=", "9">>
C_a5c6 == <<"a", "=", "5", ";", " ", "c", "=", "6">>
C_Ctl == <<"c", "=", BEL, "7">>
CookieChoices == {<<>>, C_b9, C_a5c6, C_Ctl}
U_example == <<"h", "t", "t", "p", ":", "/", "/", "e", "x", "a", "m", "p", "l", "e", "/", "x">>
U_bad == <<":", "/", "/", "b", "a", "d">>
P_proxy1 == <<"h", "t", "t", "p", ":", "/", "/", "p", "1">>
P_proxy2 == <<"s", "o", "c", "k", "s", "5", ":", "/", "/", "p", "2">>
M_POST == <<"P", "O", "S", "T">>
M_bad == <<"G", " ", "T">>
T_GZIP == <<"G", "Z", "I", "P">>
T_HTTP11 == <<"H", "T", "T", "P", "/", "1", ".", "1">>
T_HTTP2 == <<"H", "T", "T", "P", "/", "2", ".", "0">>
T_200 == <<"2", "0", "0", " ", "O", "K">>
T_302 == <<"3", "0", "2", " ", "F", "o", "u", "n", "d">>
T_XA == <<"X", "-", "A">>
T_SetCookie == <<"S", "e", "t", "-", "C", "o", "o", "k", "i", "e">>
T_1 == <<"1">>
T_2 == <<"2">>

Bodies == UNION {[1 .. n -> ByteVals] : n \in 0 .. MaxBody}
SizeChoices == {-1, 0, 1, 2, MaxInt64}
EncodingChoices == {T_gzip, T_deflate, T_br, T_zstd, T_GZIP}
Orders(h) == {o \in [1 .. Cardinality(DOMAIN h) -> DOMAIN h] :
                 \A i, j \in DOMAIN o : i # j => o[i] # o[j]}
H_Encoding(enc) == [k \in {T_ContentEncoding} |-> <<enc>>]
H_Two == [k \in {T_ContentEncoding, T_XA} |-> IF k = T_XA THEN <<T_1, T_2>> ELSE <<T_gzip>>]
H_Cookies == [k \in {T_SetCookie, T_XA} |-> IF k = T_XA THEN <<T_1>> ELSE <<T_2, T_1>>]
Resp200(h) == [StatusCode |-> 200, Proto |-> T_HTTP11, Status |-> T_200, Header |-> h]
Resp302(h) == [StatusCode |-> 302, Proto |-> T_HTTP2, Status |-> T_302, Header |-> h]

BaseArgs == [urlStr |-> U_example, method |-> T_GET, postData |-> Bytes(<<>>), cookieGo |-> <<>>,
             headersTextGo |-> <<>>, allowRedirects |-> TRUE, proxyGo |-> <<>>, timeout |-> 30,
             MaxResponseSize |-> 0, ignoreCertErrors |-> FALSE]
BaseEnv == [h2Fail |-> FALSE, sendFail |-> FALSE, resp |-> Resp200(EmptyHeader), wire |-> <<1>>,
            endErr |-> FALSE, errWithData |-> FALSE, order |-> <<>>]
In(a, e) == [a |-> a, e |-> e]
\* The request: every cookie string with every header text.
RequestInputs == {In([BaseArgs EXCEPT !.cookieGo = c, !.headersTextGo = h], BaseEnv) :
                     c \in CookieChoices, h \in HeaderTexts}
\* The transport and the client: proxy, certificate flag, timeout, redirects,
\* body, method and URL, and the failures before a response is there.
TransportInputs ==
    {In([BaseArgs EXCEPT !.proxyGo = x[1], !.ignoreCertErrors = x[2], !.timeout = x[3],
                         !.allowRedirects = x[4], !.postData = x[5]],
        [BaseEnv EXCEPT !.h2Fail = x[6], !.sendFail = x[7]]) :
        x \in {<<>>, P_proxy1, P_proxy2, U_bad} \X BOOLEAN \X {0, 5} \X BOOLEAN
              \X {NilBytes, Bytes(<<>>), Bytes(<<1>>)} \X BOOLEAN \X BOOLEAN}
    \cup {In([BaseArgs EXCEPT !.method = m, !.urlStr = u], BaseEnv) :
             m \in {<<>>, T_GET, M_POST, M_bad}, u \in {U_example, U_bad}}
\* The response: every size cap with every encoding, body and end of stream.
ResponseInputs ==
    {In([BaseArgs EXCEPT !.MaxResponseSize = x[1]],
        [BaseEnv EXCEPT !.resp = Resp200(x[2]), !.wire = x[3], !.endErr = x[4][1],
                        !.errWithData = x[4][2], !.order = x[5]]) :
        x \in {y \in SizeChoices \X ({EmptyHeader} \cup {H_Encoding(enc) : enc \in EncodingChoices})
                      \X Bodies \X {<<FALSE, FALSE>>, <<TRUE, FALSE>>, <<TRUE, TRUE>>}
                      \X {<<>>, <<T_ContentEncoding>>} : y[5] \in Orders(y[2])}}
\* The response's header: several keys and values, in every iteration order.
HeaderInputs ==
    {In([BaseArgs EXCEPT !.MaxResponseSize = x[1]],
        [BaseEnv EXCEPT !.resp = x[2], !.wire = x[3], !.order = x[4]]) :
        x \in {y \in {0, 1} \X {Resp200(H_Two), Resp302(H_Two), Resp302(H_Cookies)}
                      \X {<<>>, <<1, 0>>, <<1, 1, 1>>}
                      \X (Orders(H_Two) \cup Orders(H_Cookies)) : y[4] \in Orders(y[2].Header)}}
\* The inputs of a call, slice by slice.
Inputs == <<RequestInputs, TransportInputs, ResponseInputs, HeaderInputs>>
\* HttpUrlStruct hands its request on to HttpUrl: its calls take the same
\* inputs, with the bodies of at most one byte.
StructInputs == <<RequestInputs, TransportInputs,
                  {in \in ResponseInputs : Len(in.e.wire) <= 1}, HeaderInputs>>

\* The caller's HttpRequest with the fields of a: nil, or the struct.
RequestOf(a) == [isNil |-> FALSE, URL |-> a.urlStr, Method |-> a.method, PostData |-> a.postData,
                 Cookie |-> a.cookieGo, Headers |-> a.headersTextGo,
                 AllowRedirects |-> a.allowRedirects, Proxy |-> a.proxyGo, Timeout |-> a.timeout,
                 MaxResponseSize |-> a.MaxResponseSize, IgnoreCertErrors |-> a.ignoreCertErrors]
NilRequest == [RequestOf(BaseArgs) EXCEPT !.isNil = TRUE]

\* ------------------------------------------------------------------ state
VARIABLES
    pc,        \* "idle" before the call, "done" after it
    call,      \* the call made: the function, its arguments, its environment
    ret,       \* what the call handed back
    sent,      \* the request client.Do was given, if it was called
    client,    \* the http.Client the call built, if it got that far
    reqAfter,  \* the caller's HttpRequest after HttpUrlStruct
    limit,     \* the N the io.LimitedReader of line 709 starts with, 0 before
    transports, \* every http.Transport allocated so far: its (proxy, ignoreCertErrors)
    started,   \* the number of calls begun by the concurrent callers
    cpc,       \* per caller: "idle", "failed" at line 655, "client" between lines
               \* 668 and 694, "ready" between lines 699 and 702
    ckey,      \* per caller: the (proxy, ignoreCertErrors) of its call
    ctr,       \* per caller: the transport of the client it built
    clients,   \* every http.Client allocated so far: its transport, Timeout and
               \* CheckRedirect
    ccl,       \* per caller: the client it built and the allowRedirects of its call
    log,       \* the requests performed: (key, transport, client), in order
    fpc,       \* a function applied on its own: "none", "input" or "output"
    farg,      \* its arguments
    fout,      \* its result
    mapping    \* the caller's map[string]int and the pointer to it
seqVars == <<pc, call, ret, sent, client, reqAfter, limit>>
poolVars == <<transports, started, cpc, ckey, ctr, clients, ccl, log>>
funVars == <<fpc, farg, fout, mapping>>
vars == <<seqVars, poolVars, funVars>>

NotSent == [called |-> FALSE, header |-> EmptyHeader, body |-> <<>>, written |-> FALSE]
NoClient == [built |-> FALSE, c |-> ClientOf(BaseArgs)]
\* The request as client.Do gets it (line 702), and whether the transport
\* writes it to the connection.
SentOf(a, e) == IF EarlyErr(a, e) # NoErr THEN NotSent
                ELSE LET h == RequestHeader(a.cookieGo, a.headersTextGo)
                     IN [called |-> TRUE, header |-> h, body |-> EffectivePostData(a.postData).data,
                         written |-> ~RoundTripRejects(h)]
\* Lines 665-668: the client exists once the transport is configured.
ClientBuilt(a, e) == IF (a.proxyGo # <<>> /\ UrlParseErr(a.proxyGo)) \/ e.h2Fail THEN NoClient
                     ELSE [built |-> TRUE, c |-> ClientOf(a)]

\* Line 709: the LimitedReader's N, once client.Do has returned a response.
LimitOf(a, e) == IF EarlyErr(a, e) # NoErr \/ DoErr(a, e) THEN 0
                 ELSE Add64(EffectiveMaxResponseSize(a.MaxResponseSize), 1)

Callers == 1 .. NumCallers
KeyOf(proxyGo, ignoreCertErrors) == [proxy |-> proxyGo, ignoreCert |-> ignoreCertErrors]
NoKey == KeyOf(<<>>, FALSE)
NoClientHeld == [id |-> 0, allowRedirects |-> TRUE]

\* No function is applied on its own.
NoFunction == fpc = "none" /\ farg = <<>> /\ fout = <<>> /\ mapping = <<>>
\* No call of HttpUrl or HttpUrlStruct is made or begun.
NoCall ==
        /\ pc = "idle"
        /\ call = [fn |-> "none", a |-> BaseArgs, req |-> NilRequest, e |-> BaseEnv]
        /\ ret = Returned(NoErr, NilResponse)
        /\ sent = NotSent
        /\ client = NoClient
        /\ reqAfter = NilRequest
        /\ limit = 0
        /\ transports = <<>>
        /\ started = 0
        /\ cpc = [c \in Callers |-> "idle"]
        /\ ckey = [c \in Callers |-> NoKey]
        /\ ctr = [c \in Callers |-> 0]
        /\ clients = <<>>
        /\ ccl = [c \in Callers |-> NoClientHeld]
        /\ log = <<>>
Init == NoCall /\ NoFunction

\* A call of HttpUrl (lines 616-846).
CallHttpUrl == /\ pc = "idle"
               /\ \E k \in DOMAIN Inputs : \E in \in Inputs[k] :
                     /\ call' = [fn |-> "HttpUrl", a |-> in.a, req |-> NilRequest, e |-> in.e]
                     /\ ret' = HttpUrl(in.a, in.e)
                     /\ sent' = SentOf(in.a, in.e)
                     /\ client' = ClientBuilt(in.a, in.e)
                     /\ limit' = LimitOf(in.a, in.e)
               /\ pc' = "done"
               /\ UNCHANGED <<reqAfter, poolVars, funVars>>

\* A call of HttpUrlStruct (lines 860-892) with a nil or a non-nil request.
CallHttpUrlStruct ==
    /\ pc = "idle"
    /\ \E k \in DOMAIN StructInputs : \E in \in StructInputs[k], isNil \in BOOLEAN :
          LET req == IF isNil THEN NilRequest ELSE RequestOf(in.a)
              a == IF isNil THEN BaseArgs ELSE StructArgs(StructDefaults(req))
          IN /\ isNil => in = In(BaseArgs, BaseEnv)
             /\ call' = [fn |-> "HttpUrlStruct", a |-> a, req |-> req, e |-> in.e]
             /\ ret' = HttpUrlStruct(req, in.e)
             /\ sent' = IF isNil THEN NotSent ELSE SentOf(a, in.e)
             /\ client' = IF isNil THEN NoClient ELSE ClientBuilt(a, in.e)
             /\ reqAfter' = IF isNil THEN req ELSE StructDefaults(req)
             /\ limit' = IF isNil THEN 0 ELSE LimitOf(a, in.e)
    /\ pc' = "done"
    /\ UNCHANGED <<poolVars, funVars>>

Next == CallHttpUrl \/ CallHttpUrlStruct
Spec == Init /\ [][Next]_vars

\* ------------------------------------------------------- concurrent callers
\* HttpUrl keeps no package-level state: its transport and its client are
\* locals of the call.  The callers below run lines 648-668 and line 702 as
\* two steps, so that calls overlap in every way.

\* A pooled transport: the one already made for the key, if any.
PooledTransport(ts, key) == IF \E i \in 1 .. Len(ts) : ts[i] = key
                            THEN CHOOSE i \in 1 .. Len(ts) : ts[i] = key
                            ELSE Len(ts) + 1
\* Line 649: &http.Transport{...} is a new object, at a new address.
NewTransport(ts, key) == Len(ts) + 1
\* The heap with the transport of `key` at address id.
Allocate(ts, id, key) == [i \in 1 .. (IF id > Len(ts) THEN id ELSE Len(ts)) |->
                            IF i = id THEN key ELSE ts[i]]

\* A pooled client: the one already made with the timeout, if any.
PooledClient(cs, timeout) == IF \E i \in 1 .. Len(cs) : cs[i].Timeout = timeout
                             THEN CHOOSE i \in 1 .. Len(cs) : cs[i].Timeout = timeout
                             ELSE Len(cs) + 1
\* Line 665: &http.Client{...} is a new object, at a new address.
NewClient(cs, timeout) == Len(cs) + 1
\* Lines 665-668: the client as created, with no CheckRedirect.
ClientCreated(transport, timeout) ==
    [Transport |-> transport, Timeout |-> timeout, CheckRedirect |-> "default"]
\* The calls the callers make: proxyGo, ignoreCertErrors, timeout and
\* allowRedirects.
PoolCalls ==
    {<<<<>>, FALSE, DefaultTimeout, TRUE>>,
     <<<<>>, FALSE, DefaultTimeout, FALSE>>,
     <<<<>>, FALSE, 1, TRUE>>,
     <<P_proxy1, FALSE, DefaultTimeout, TRUE>>,
     <<P_proxy1, TRUE, DefaultTimeout, FALSE>>,
     <<U_bad, FALSE, DefaultTimeout, TRUE>>}
\* Lines 652-656 with the error of url.Parse ignored.
ProxyErrIgnored(proxyGo) == FALSE
\* Lines 652-656: a proxy is given and url.Parse rejects it.
ProxyErr(proxyGo) == proxyGo # <<>> /\ UrlParseErr(proxyGo)
\* Lines 648-668: the transport is made, the proxy parsed, the client built.
\* A proxy that does not parse ends the call at line 655, with the transport
\* of line 649 still a local of the call.
BuildClient(c) ==
    /\ cpc[c] = "idle"
    /\ started < MaxCalls
    /\ \E args \in PoolCalls :
          LET proxyGo == args[1]
              timeout == args[3]
              key == KeyOf(proxyGo, args[2])
              id == NewTransport(transports, key)
              cid == NewClient(clients, timeout)
          IN /\ transports' = Allocate(transports, id, key)
             /\ cpc' = [cpc EXCEPT ![c] = IF ProxyErr(proxyGo) THEN "failed" ELSE "client"]
             /\ ckey' = [ckey EXCEPT ![c] = key]
             /\ ctr' = [ctr EXCEPT ![c] = id]
             /\ IF ProxyErr(proxyGo)
                THEN UNCHANGED <<clients, ccl>>
                ELSE /\ clients' = IF cid > Len(clients)
                                   THEN Append(clients, ClientCreated(id, timeout))
                                   ELSE clients
                     /\ ccl' = [ccl EXCEPT ![c] = [id |-> cid, allowRedirects |-> args[4]]]
    /\ started' = started + 1
    /\ UNCHANGED <<log, seqVars, funVars>>

\* Line 655: the call returns "error: parsing proxy URL"; no request was made
\* and the call's locals, its transport among them, are gone.
ReturnProxyErr(c) ==
    /\ cpc[c] = "failed"
    /\ cpc' = [cpc EXCEPT ![c] = "idle"]
    /\ ckey' = [ckey EXCEPT ![c] = NoKey]
    /\ ctr' = [ctr EXCEPT ![c] = 0]
    /\ UNCHANGED <<transports, started, clients, ccl, log, seqVars, funVars>>

\* Lines 694-699: with allowRedirects false the call assigns CheckRedirect of
\* the client it created at line 665.
SetCheckRedirect(c) ==
    /\ cpc[c] = "client"
    /\ clients' = IF ccl[c].allowRedirects THEN clients
                  ELSE [clients EXCEPT ![ccl[c].id].CheckRedirect = "ErrUseLastResponse"]
    /\ cpc' = [cpc EXCEPT ![c] = "ready"]
    /\ UNCHANGED <<transports, started, ckey, ctr, ccl, log, seqVars, funVars>>

\* Line 702 to the return: the request is performed with the client's
\* transport; the call's locals are gone when it returns.
DoRequest(c) ==
    /\ cpc[c] = "ready"
    /\ log' = Append(log, [key |-> ckey[c], transport |-> ctr[c], client |-> ccl[c].id,
                           allowRedirects |-> ccl[c].allowRedirects,
                           policy |-> clients[ccl[c].id].CheckRedirect])
    /\ cpc' = [cpc EXCEPT ![c] = "idle"]
    /\ ckey' = [ckey EXCEPT ![c] = NoKey]
    /\ ctr' = [ctr EXCEPT ![c] = 0]
    /\ ccl' = [ccl EXCEPT ![c] = NoClientHeld]
    /\ UNCHANGED <<transports, started, clients, seqVars, funVars>>

NextPool == \E c \in Callers : \/ BuildClient(c)
                                \/ ReturnProxyErr(c)
                                \/ SetCheckRedirect(c)
                                \/ DoRequest(c)
SpecPool == Init /\ [][NextPool]_vars

\* --------------------------------------------- formatHeaders on its own
\* formatHeaders takes any map[string][]string: each key has a list of
\* values, which may be empty.
MaxValues == 2
FormatKeys == {T_XA, T_SetCookie, T_ContentEncoding}
ValueLists == UNION {[1 .. n -> {T_1, T_2}] : n \in 0 .. MaxValues}
FormatHeaderMaps == UNION {[K -> ValueLists] : K \in SUBSET FormatKeys}
FormatInputs == {x \in {[resp |-> r, order |-> o] :
                           r \in {Resp200(h) : h \in FormatHeaderMaps}
                                 \cup {Resp302(h) : h \in FormatHeaderMaps},
                           o \in UNION {Orders(h) : h \in FormatHeaderMaps}} :
                    x.order \in Orders(x.resp.Header)}
InitFormat == NoCall /\ fpc = "input" /\ farg \in FormatInputs /\ fout = <<>> /\ mapping = <<>>
\* Lines 833-845 and 849-857: the status line and the raw headers of a
\* response.
FormatResponse ==
    /\ fpc = "input"
    /\ fout' = [StatusLine |-> StatusLineOf(farg.resp),
                RawHeaders |-> formatHeaders(farg.resp.Header, farg.order)]
    /\ fpc' = "output"
    /\ UNCHANGED <<farg, mapping, seqVars, poolVars>>
NextFormat == FormatResponse
SpecFormat == InitFormat /\ [][NextFormat]_vars

\* ------------------------------------------------------------ CSVFieldMapper
\* The function as printed in src/README.md (lines 2064-2087) and called in
\* src/main.go (lines 24-32).  A *map[string]int is a nil pointer, or points
\* to a map that is nil or holds entries: [ptrNil, mapNil, data].
MaxFields == 2
NilPointer == [ptrNil |-> TRUE, mapNil |-> TRUE, data |-> [k \in {} |-> 0]]
NilMap == [ptrNil |-> FALSE, mapNil |-> TRUE, data |-> [k \in {} |-> 0]]
EmptyMap == [ptrNil |-> FALSE, mapNil |-> FALSE, data |-> [k \in {} |-> 0]]
CsvReturn(val, err, m) == [kind |-> "return", val |-> val, err |-> err, mapping |-> m]
CsvPanic(m) == [kind |-> "panic", val |-> "", err |-> "assignment to entry in nil map", mapping |-> m]
\* The loop writing into a map made anew for the header.
StoreFieldsFresh(data, fields, start) ==
    [k \in {fields[i] : i \in DOMAIN fields} |->
        (CHOOSE i \in DOMAIN fields : fields[i] = k /\ \A j \in DOMAIN fields : fields[j] = k => j <= i)
        - 1 + start]
\* Lines 2071-2073: (*mapping)[field] = i for every field, in order; the
\* indexes count from start (0 in Go).
StoreFields(data, fields, start) ==
    [k \in DOMAIN data \cup {fields[i] : i \in DOMAIN fields} |->
        IF \E i \in DOMAIN fields : fields[i] = k
        THEN (CHOOSE i \in DOMAIN fields : fields[i] = k /\ \A j \in DOMAIN fields : fields[j] = k => j <= i)
             - 1 + start
        ELSE data[k]]
\* The header mode storing the indexes from 1.
CSVFieldMapperOneBased(fields, m, isHeader, fieldName) ==
    IF m.ptrNil THEN CsvReturn("", "mapping cannot be nil", m)
    ELSE IF isHeader
         THEN IF fields = <<>> THEN CsvReturn("", NoErr, m)
              ELSE IF m.mapNil THEN CsvPanic(m)
              ELSE CsvReturn("", NoErr, [m EXCEPT !.data = StoreFields(@, fields, 1)])
    ELSE IF fieldName \notin DOMAIN m.data THEN CsvReturn("", "not found in mapping", m)
    ELSE IF m.data[fieldName] < 0 \/ m.data[fieldName] >= Len(fields)
         THEN CsvReturn("", "index out of range", m)
    ELSE CsvReturn(fields[m.data[fieldName] + 1], NoErr, m)
\* Lines 2064-2087.  fields[idx] of Go is fields[idx + 1] here.
CSVFieldMapper(fields, m, isHeader, fieldName) ==
    IF m.ptrNil THEN CsvReturn("", "mapping cannot be nil", m)
    ELSE IF isHeader
         THEN IF fields = <<>> THEN CsvReturn("", NoErr, m)
              ELSE IF m.mapNil THEN CsvPanic(m)
              ELSE CsvReturn("", NoErr, [m EXCEPT !.data = StoreFields(@, fields, 0)])
    ELSE IF fieldName \notin DOMAIN m.data THEN CsvReturn("", "not found in mapping", m)
    ELSE IF m.data[fieldName] < 0 \/ m.data[fieldName] >= Len(fields)
         THEN CsvReturn("", "index out of range", m)
    ELSE CsvReturn(fields[m.data[fieldName] + 1], NoErr, m)

CsvNames == {"id", "name"}
CsvFieldNames == CsvNames \cup {"age"}
CsvValues == {"1", "Tom"}
CsvHeaders == UNION {[1 .. n -> CsvNames] : n \in 0 .. MaxFields}
CsvRows == UNION {[1 .. n -> CsvValues] : n \in 0 .. MaxFields}
CsvArgs(fields, isHeader, fieldName) == [fields |-> fields, isHeader |-> isHeader, fieldName |-> fieldName]
\* The header calls a caller makes on one mapping, at most.
MaxHeaders == 2
\* The caller of src/main.go: a mapping, the header calls, the row call.
InitCsv == NoCall /\ fpc = "start" /\ farg = <<>> /\ fout = <<>>
           /\ mapping \in {NilPointer, NilMap, EmptyMap}
\* main.go line 26: CSVFieldMapper(header, &mapping, true, "").
CsvHeaderCall ==
    /\ fpc \in {"start", "mapped"}
    /\ Len(farg) < MaxHeaders
    /\ \E header \in CsvHeaders :
          LET r == CSVFieldMapper(header, mapping, TRUE, "")
          IN /\ farg' = Append(farg, CsvArgs(header, TRUE, ""))
             /\ fout' = Append(fout, [kind |-> r.kind, val |-> r.val, err |-> r.err])
             /\ mapping' = r.mapping
             /\ fpc' = IF r.kind = "panic" THEN "panic" ELSE "mapped"
    /\ UNCHANGED <<seqVars, poolVars>>
\* main.go lines 29-31: CSVFieldMapper(row, &mapping, false, fieldName).
CsvRowCall ==
    /\ fpc = "mapped"
    /\ \E row \in CsvRows, fieldName \in CsvFieldNames :
          LET r == CSVFieldMapper(row, mapping, FALSE, fieldName)
          IN /\ farg' = Append(farg, CsvArgs(row, FALSE, fieldName))
             /\ fout' = Append(fout, [kind |-> r.kind, val |-> r.val, err |-> r.err])
             /\ mapping' = r.mapping
             /\ fpc' = "output"
    /\ UNCHANGED <<seqVars, poolVars>>
NextCsv == CsvHeaderCall \/ CsvRowCall
SpecCsv == InitCsv /\ [][NextCsv]_vars

\* ---------------------------------------------------------- GetTextTwoMiddle
\* The function as printed in src/README.md (lines 2206-2292) and called in
\* src/main.go (line 14).  A string is the sequence of its bytes; positions
\* count bytes from 0, as in Go.
\* strings.Index: the offset of the first occurrence, -1 when there is none.
IndexStr(s, sub) ==
    LET at == {i \in 0 .. (Len(s) - Len(sub)) : SubSeq(s, i + 1, i + Len(sub)) = sub}
    IN IF at = {} THEN 0 - 1 ELSE CHOOSE i \in at : \A j \in at : i <= j
\* The fallback returning what is left of the source where the search failed.
GetTextTwoMiddleFallbackRest(sourceText, startText, endText, startPosition, offset, fallbackToSource) ==
    LET notFound(rest) == [pos |-> -1, text |-> IF fallbackToSource THEN rest ELSE <<>>]
        sp == IF startPosition = -1 THEN 0 ELSE startPosition
        ok1 == sp > 0 => Len(sourceText) >= sp
        b1 == IF sp > 0 THEN sp ELSE 0
        s1 == IF sp > 0 THEN SubSeq(sourceText, sp + 1, Len(sourceText)) ELSE sourceText
        pos == IndexStr(s1, offset)
        ok2 == offset # <<>> => pos # -1
        b2 == IF offset # <<>> THEN b1 + pos + Len(offset) ELSE b1
        s2 == IF offset # <<>> THEN SubSeq(s1, pos + Len(offset) + 1, Len(s1)) ELSE s1
        startPos == IndexStr(s2, startText)
        ok3 == startText # <<>> => startPos # -1
        b3 == IF startText # <<>> THEN b2 + startPos + Len(startText) ELSE b2
        s3 == IF startText # <<>> THEN SubSeq(s2, startPos + Len(startText) + 1, Len(s2)) ELSE s2
        endPos == IndexStr(s3, endText)
        ok4 == endText # <<>> => endPos # -1
        s4 == IF endText # <<>> THEN SubSeq(s3, 1, endPos) ELSE s3
        b4 == IF endText # <<>> THEN b3 + Len(s4) + Len(endText) ELSE b3
    IN IF ~ok1 THEN notFound(sourceText)
       ELSE IF ~ok2 THEN notFound(s1)
       ELSE IF ~ok3 THEN notFound(s2)
       ELSE IF ~ok4 THEN notFound(s3)
       ELSE [pos |-> b4, text |-> s4]
\* The position returned without the length of the end text.
GetTextTwoMiddleBeforeEnd(sourceText, startText, endText, startPosition, offset, fallbackToSource) ==
    LET notFound == [pos |-> -1, text |-> IF fallbackToSource THEN sourceText ELSE <<>>]
        sp == IF startPosition = -1 THEN 0 ELSE startPosition
        ok1 == sp > 0 => Len(sourceText) >= sp
        b1 == IF sp > 0 THEN sp ELSE 0
        s1 == IF sp > 0 THEN SubSeq(sourceText, sp + 1, Len(sourceText)) ELSE sourceText
        pos == IndexStr(s1, offset)
        ok2 == offset # <<>> => pos # -1
        b2 == IF offset # <<>> THEN b1 + pos + Len(offset) ELSE b1
        s2 == IF offset # <<>> THEN SubSeq(s1, pos + Len(offset) + 1, Len(s1)) ELSE s1
        startPos == IndexStr(s2, startText)
        ok3 == startText # <<>> => startPos # -1
        b3 == IF startText # <<>> THEN b2 + startPos + Len(startText) ELSE b2
        s3 == IF startText # <<>> THEN SubSeq(s2, startPos + Len(startText) + 1, Len(s2)) ELSE s2
        endPos == IndexStr(s3, endText)
        ok4 == endText # <<>> => endPos # -1
        s4 == IF endText # <<>> THEN SubSeq(s3, 1, endPos) ELSE s3
        b4 == IF endText # <<>> THEN b3 + Len(s4) + 0 ELSE b3
    IN IF ~ok1 THEN notFound
       ELSE IF ~ok2 THEN notFound
       ELSE IF ~ok3 THEN notFound
       ELSE IF ~ok4 THEN notFound
       ELSE [pos |-> b4, text |-> s4]
\* Lines 2206-2292.  sourceTextTemp is sourceText as passed in; backEndPos and
\* the shortened sourceText are b1..b4 and s1..s4, step by step.
GetTextTwoMiddle(sourceText, startText, endText, startPosition, offset, fallbackToSource) ==
    LET notFound == [pos |-> -1, text |-> IF fallbackToSource THEN sourceText ELSE <<>>]
        sp == IF startPosition = -1 THEN 0 ELSE startPosition
        ok1 == sp > 0 => Len(sourceText) >= sp
        b1 == IF sp > 0 THEN sp ELSE 0
        s1 == IF sp > 0 THEN SubSeq(sourceText, sp + 1, Len(sourceText)) ELSE sourceText
        pos == IndexStr(s1, offset)
        ok2 == offset # <<>> => pos # -1
        b2 == IF offset # <<>> THEN b1 + pos + Len(offset) ELSE b1
        s2 == IF offset # <<>> THEN SubSeq(s1, pos + Len(offset) + 1, Len(s1)) ELSE s1
        startPos == IndexStr(s2, startText)
        ok3 == startText # <<>> => startPos # -1
        b3 == IF startText # <<>> THEN b2 + startPos + Len(startText) ELSE b2
        s3 == IF startText # <<>> THEN SubSeq(s2, startPos + Len(startText) + 1, Len(s2)) ELSE s2
        endPos == IndexStr(s3, endText)
        ok4 == endText # <<>> => endPos # -1
        s4 == IF endText # <<>> THEN SubSeq(s3, 1, endPos) ELSE s3
        b4 == IF endText # <<>> THEN b3 + Len(s4) + Len(endText) ELSE b3
    IN IF ~ok1 THEN notFound
       ELSE IF ~ok2 THEN notFound
       ELSE IF ~ok3 THEN notFound
       ELSE IF ~ok4 THEN notFound
       ELSE [pos |-> b4, text |-> s4]

\* GetTextTwoMiddleBytes as printed in src/README.md (lines 2314-2394).  The
\* source is a []byte that may be nil; a slice of it is nil when it is.  Of
\* the markers and the anchor only the bytes are used.
\* bytes.Index is strings.Index on the bytes.
\* The fallback returning what is left of the source where the search failed.
GetTextTwoMiddleBytesFallbackRest(sourceText, startText, endText, startPosition, offset, fallbackToSource) ==
    LET notFound(rest) == [pos |-> 0 - 1,
                           text |-> IF fallbackToSource THEN [isNil |-> sourceText.isNil, data |-> rest] ELSE NilBytes]
        sp == IF startPosition = -1 THEN 0 ELSE startPosition
        ok1 == sp > 0 => Len(sourceText.data) >= sp
        b1 == IF sp > 0 THEN sp ELSE 0
        s1 == IF sp > 0 THEN SubSeq(sourceText.data, sp + 1, Len(sourceText.data)) ELSE sourceText.data
        pos == IndexStr(s1, offset)
        ok2 == Len(offset) > 0 => pos # -1
        b2 == IF Len(offset) > 0 THEN b1 + pos + Len(offset) ELSE b1
        s2 == IF Len(offset) > 0 THEN SubSeq(s1, pos + Len(offset) + 1, Len(s1)) ELSE s1
        startPos == IndexStr(s2, startText)
        ok3 == Len(startText) > 0 => startPos # -1
        b3 == IF Len(startText) > 0 THEN b2 + startPos + Len(startText) ELSE b2
        s3 == IF Len(startText) > 0 THEN SubSeq(s2, startPos + Len(startText) + 1, Len(s2)) ELSE s2
        endPos == IndexStr(s3, endText)
        ok4 == Len(endText) > 0 => endPos # -1
        s4 == IF Len(endText) > 0 THEN SubSeq(s3, 1, endPos) ELSE s3
        b4 == IF Len(endText) > 0 THEN b3 + Len(s4) + Len(endText) ELSE b3
    IN IF ~ok1 THEN notFound(sourceText.data)
       ELSE IF ~ok2 THEN notFound(s1)
       ELSE IF ~ok3 THEN notFound(s2)
       ELSE IF ~ok4 THEN notFound(s3)
       ELSE [pos |-> b4, text |-> [isNil |-> sourceText.isNil, data |-> s4]]
\* Lines 2314-2394.
GetTextTwoMiddleBytes(sourceText, startText, endText, startPosition, offset, fallbackToSource) ==
    LET notFound(rest) == [pos |-> 0 - 1,
                           text |-> IF fallbackToSource THEN sourceText ELSE NilBytes]
        sp == IF startPosition = -1 THEN 0 ELSE startPosition
        ok1 == sp > 0 => Len(sourceText.data) >= sp
        b1 == IF sp > 0 THEN sp ELSE 0
        s1 == IF sp > 0 THEN SubSeq(sourceText.data, sp + 1, Len(sourceText.data)) ELSE sourceText.data
        pos == IndexStr(s1, offset)
        ok2 == Len(offset) > 0 => pos # -1
        b2 == IF Len(offset) > 0 THEN b1 + pos + Len(offset) ELSE b1
        s2 == IF Len(offset) > 0 THEN SubSeq(s1, pos + Len(offset) + 1, Len(s1)) ELSE s1
        startPos == IndexStr(s2, startText)
        ok3 == Len(startText) > 0 => startPos # -1
        b3 == IF Len(startText) > 0 THEN b2 + startPos + Len(startText) ELSE b2
        s3 == IF Len(startText) > 0 THEN SubSeq(s2, startPos + Len(startText) + 1, Len(s2)) ELSE s2
        endPos == IndexStr(s3, endText)
        ok4 == Len(endText) > 0 => endPos # -1
        s4 == IF Len(endText) > 0 THEN SubSeq(s3, 1, endPos) ELSE s3
        b4 == IF Len(endText) > 0 THEN b3 + Len(s4) + Len(endText) ELSE b3
    IN IF ~ok1 THEN notFound(sourceText.data)
       ELSE IF ~ok2 THEN notFound(s1)
       ELSE IF ~ok3 THEN notFound(s2)
       ELSE IF ~ok4 THEN notFound(s3)
       ELSE [pos |-> b4, text |-> [isNil |-> sourceText.isNil, data |-> s4]]

\* Longest source text and longest marker, in bytes.
MaxText == 4
MaxMarker == 2
TextBytes == {"a", "b"}
Texts(n) == UNION {[1 .. k -> TextBytes] : k \in 0 .. n}
S_Example == <<"A", "A", "s", "t", "a", "r", "t", "X", "e", "n", "d", "B", "B">>
S_start == <<"s", "t", "a", "r", "t">>
S_end == <<"e", "n", "d">>
TextArgs(src, start, end, pos, offset, fallback) ==
    [sourceText |-> src, startText |-> start, endText |-> end, startPosition |-> pos,
     offset |-> offset, fallbackToSource |-> fallback]
\* From the beginning of the source, without an anchor: every source with
\* every pair of markers.
MarkerInputs == {TextArgs(x[1], x[2], x[3], 0, <<>>, x[4]) :
                    x \in Texts(MaxText) \X Texts(MaxMarker) \X Texts(MaxMarker) \X BOOLEAN}
                \cup {TextArgs(S_Example, S_start, S_end, 0, <<>>, FALSE)}
\* With a start position and an anchor: markers of one byte at most.
PositionInputs == {TextArgs(x[1], x[2], x[3], x[4], x[5], x[6]) :
                      x \in Texts(MaxText) \X Texts(1) \X Texts(1) \X ((0 - 2) .. (MaxText + 1))
                            \X Texts(1) \X BOOLEAN}
TextInputs == <<MarkerInputs, PositionInputs>>
InitText == NoCall /\ fpc = "input" /\ fout = <<>> /\ mapping = <<>>
            /\ \E k \in DOMAIN TextInputs : farg \in TextInputs[k]
\* main.go line 14: a call of GetTextTwoMiddle.
CallGetTextTwoMiddle ==
    /\ fpc = "input"
    /\ fout' = GetTextTwoMiddle(farg.sourceText, farg.startText, farg.endText,
                                farg.startPosition, farg.offset, farg.fallbackToSource)
    /\ fpc' = "output"
    /\ UNCHANGED <<farg, mapping, seqVars, poolVars>>
\* main.go line 18: a call of GetTextTwoMiddleBytes on the bytes of the same
\* strings; an empty source is passed as []byte("") or as nil.
CallGetTextTwoMiddleBytes ==
    /\ fpc = "input"
    /\ \E sourceText \in {Bytes(farg.sourceText)}
                           \cup (IF farg.sourceText = <<>> THEN {NilBytes} ELSE {}) :
          fout' = [source |-> sourceText,
                   ret |-> GetTextTwoMiddleBytes(sourceText, farg.startText, farg.endText,
                                                 farg.startPosition, farg.offset,
                                                 farg.fallbackToSource)]
    /\ fpc' = "outputBytes"
    /\ UNCHANGED <<farg, mapping, seqVars, poolVars>>
NextText == CallGetTextTwoMiddle \/ CallGetTextTwoMiddleBytes
SpecText == InitText /\ [][NextText]_vars

\* ------------------------------------------------------------------ coercion
\* ToUint32, ToIntErr and ToUint64Err as printed in src/README.md (lines
\* 738-802, 675-735 and 1122-1186).  An interface{} value is its dynamic type
\* and its value: [type, val].  The widths of the integer types are scaled
\* down, in their order: 8, 16 and 32 bits become Bits8, Bits16 and Bits32, and
\* 64 bits (int64, uint64 and, on a 64-bit platform, int and uint) IntBits.
Bits8 == 3
Bits16 == 5
Bits32 == 8
SignedTypes == {"int", "int8", "int16", "int32", "int64"}
UnsignedTypes == {"uint", "uint8", "uint16", "uint32", "uint64"}
BitsOf(type) == IF type \in {"int8", "uint8"} THEN Bits8
                ELSE IF type \in {"int16", "uint16"} THEN Bits16
                ELSE IF type \in {"int32", "uint32"} THEN Bits32
                ELSE IntBits
MinOf(type) == IF type \in SignedTypes THEN 0 - 2 ^ (BitsOf(type) - 1) ELSE 0
MaxOf(type) == IF type \in SignedTypes THEN 2 ^ (BitsOf(type) - 1) - 1
               ELSE 2 ^ BitsOf(type) - 1
\* ^uint32(0)
MaxUint32 == 2 ^ Bits32 - 1
\* int(^uint(0) >> 1) and -maxInt - 1 (lines 680-681)
maxInt == MaxInt64
minInt == 0 - maxInt - 1
\* A float is a number (of the model: a whole one) or NaN.
Float(n) == [nan |-> FALSE, val |-> n]
NaN == [nan |-> TRUE, val |-> 0]
\* The comparisons of floats: false when an operand is NaN.
FloatLess(f, n) == ~f.nan /\ f.val < n
FloatGreater(f, n) == ~f.nan /\ f.val > n
\* float32(^uint32(0)): the nearest float32, whose mantissa is shorter than
\* 32 bits, is 2^32.  float64(^uint32(0)) is exact.
Float32OfMaxUint32 == 2 ^ Bits32
Float64OfMaxUint32 == MaxUint32
\* float32(maxInt) and float64(maxInt): the nearest float to 2^63 - 1 is 2^63.
FloatOfMaxInt == 2 ^ (IntBits - 1)
\* A conversion of a float to an integer type with the range lo .. hi: the
\* value when it is in the range; otherwise the result is
\* implementation-specific: the builds give the least value, the greatest,
\* the value modulo the width or 0.
FloatToInteger(f, lo, hi) ==
    IF ~f.nan /\ f.val >= lo /\ f.val <= hi THEN {f.val}
    ELSE {lo, hi, 0} \cup (IF f.nan THEN {} ELSE {lo + ((f.val - lo) % (hi - lo + 1))})

DecimalDigits == <<"0", "1", "2", "3", "4", "5", "6", "7", "8", "9">>
IsDecimalDigit(c) == \E i \in DOMAIN DecimalDigits : DecimalDigits[i] = c
DigitValue(c) == (CHOOSE i \in DOMAIN DecimalDigits : DecimalDigits[i] = c) - 1
RECURSIVE DigitsValue(_)
DigitsValue(s) == IF s = <<>> THEN 0
                  ELSE DigitsValue(SubSeq(s, 1, Len(s) - 1)) * 10 + DigitValue(s[Len(s)])
S_NaN == <<"N", "a", "N">>
\* strconv.ParseFloat(s, 64) on the strings of the model: "NaN", or an
\* optional sign and decimal digits; anything else is a syntax error.
ParseFloat(s) ==
    LET signed == s # <<>> /\ s[1] \in {"-", "+"}
        digits == IF signed THEN Tail(s) ELSE s
    IN IF s = S_NaN THEN [err |-> FALSE, f |-> NaN]
       ELSE IF digits = <<>> \/ \E i \in DOMAIN digits : ~IsDecimalDigit(digits[i])
            THEN [err |-> TRUE, f |-> Float(0)]
       ELSE [err |-> FALSE,
             f |-> Float(IF signed /\ s[1] = "-" THEN 0 - DigitsValue(digits) ELSE DigitsValue(digits))]

CoerceReturn(val, err) == [kind |-> "return", val |-> val, err |-> err]
\* val.(int64) or val.(uint64) on a value of another dynamic type.
CoercePanic == [kind |-> "panic", val |-> 0, err |-> "interface conversion"]
\* uint32(val) of a non-negative integer: the low 32 bits.
Uint32Of(n) == n % (2 ^ Bits32)

\* Lines 738-802.
ToUint32(v) ==
    IF v.type = "int" THEN {CoerceReturn(IF v.val < 0 THEN 0 ELSE Uint32Of(v.val), NoErr)}
    ELSE IF v.type \in {"int8", "int16", "int32"}
         THEN {CoerceReturn(IF v.val < 0 THEN 0 ELSE Uint32Of(v.val), NoErr)}
    ELSE IF v.type = "int64"
         THEN {CoerceReturn(IF v.val < 0 \/ v.val > MaxUint32 THEN 0 ELSE Uint32Of(v.val), NoErr)}
    ELSE IF v.type = "uint"
         THEN {CoerceReturn(IF v.val > MaxUint32 THEN 0 ELSE Uint32Of(v.val), NoErr)}
    ELSE IF v.type \in {"uint8", "uint16", "uint32"} THEN {CoercePanic}
    ELSE IF v.type = "uint64"
         THEN {CoerceReturn(IF v.val > MaxUint32 THEN 0 ELSE Uint32Of(v.val), NoErr)}
    ELSE IF v.type = "float32"
         THEN IF FloatLess(v.val, 0) \/ FloatGreater(v.val, Float32OfMaxUint32)
              THEN {CoerceReturn(0, NoErr)}
              ELSE {CoerceReturn(n, NoErr) : n \in FloatToInteger(v.val, 0, MaxUint32)}
    ELSE IF v.type = "float64"
         THEN IF FloatLess(v.val, 0) \/ FloatGreater(v.val, Float64OfMaxUint32)
              THEN {CoerceReturn(0, NoErr)}
              ELSE {CoerceReturn(n, NoErr) : n \in FloatToInteger(v.val, 0, MaxUint32)}
    ELSE IF v.type \in {"string", "[]byte"}
         THEN LET p == ParseFloat(v.val)
              IN IF p.err \/ FloatLess(p.f, 0) \/ FloatGreater(p.f, Float64OfMaxUint32)
                 THEN {CoerceReturn(0, NoErr)}
                 ELSE {CoerceReturn(n, NoErr) : n \in FloatToInteger(p.f, 0, MaxUint32)}
    ELSE {CoerceReturn(0, NoErr)}

\* Lines 675-735.
ToIntErr(v) ==
    IF v.type = "nil" THEN {CoerceReturn(0, "nil value")}
    ELSE IF v.type = "int" THEN {CoerceReturn(v.val, NoErr)}
    ELSE IF v.type \in {"int8", "int16", "int32", "int64"}
         THEN IF v.type # "int64" THEN {CoercePanic}
              ELSE IF v.val > maxInt \/ v.val < minInt THEN {CoerceReturn(0, "out of range")}
              ELSE {CoerceReturn(v.val, NoErr)}
    ELSE IF v.type \in {"uint", "uint8", "uint16", "uint32"} THEN {CoercePanic}
    ELSE IF v.type = "uint64"
         THEN {IF v.val > maxInt THEN CoerceReturn(0, "out of range") ELSE CoerceReturn(v.val, NoErr)}
    ELSE IF v.type \in {"float32", "float64"}
         THEN IF FloatGreater(v.val, FloatOfMaxInt) \/ FloatLess(v.val, minInt)
              THEN {CoerceReturn(0, "out of range")}
              ELSE {CoerceReturn(n, NoErr) : n \in FloatToInteger(v.val, minInt, maxInt)}
    ELSE IF v.type \in {"string", "[]byte"}
         THEN LET p == ParseFloat(v.val)
              IN IF p.err THEN {CoerceReturn(0, "cannot convert")}
                 ELSE IF FloatGreater(p.f, FloatOfMaxInt) \/ FloatLess(p.f, minInt)
                      THEN {CoerceReturn(0, "out of range")}
                 ELSE {CoerceReturn(n, NoErr) : n \in FloatToInteger(p.f, minInt, maxInt)}
    ELSE {CoerceReturn(0, "unknown type")}

\* Lines 1122-1186.
ToUint64Err(v) ==
    IF v.type = "nil" THEN {CoerceReturn(0, "nil value")}
    ELSE IF v.type \in SignedTypes
         THEN {IF v.val < 0 THEN CoerceReturn(0, "negative") ELSE CoerceReturn(v.val, NoErr)}
    ELSE IF v.type \in UnsignedTypes
         THEN {IF v.type # "uint64" THEN CoercePanic ELSE CoerceReturn(v.val, NoErr)}
    ELSE IF v.type \in {"float32", "float64"}
         THEN IF FloatLess(v.val, 0) THEN {CoerceReturn(0, "negative")}
              ELSE {CoerceReturn(n, NoErr) : n \in FloatToInteger(v.val, 0, MaxOf("uint64"))}
    ELSE IF v.type \in {"string", "[]byte"}
         THEN LET p == ParseFloat(v.val)
              IN IF p.err THEN {CoerceReturn(0, "cannot convert")}
                 ELSE IF FloatLess(p.f, 0) THEN {CoerceReturn(0, "negative")}
                 ELSE {CoerceReturn(n, NoErr) : n \in FloatToInteger(p.f, 0, MaxOf("uint64"))}
    ELSE {CoerceReturn(0, "unknown type")}

RECURSIVE DecimalOf(_)
\* The decimal digits of a natural number.
DecimalOf(n) == IF n < 10 THEN <<DecimalDigits[n + 1]>>
                ELSE DecimalOf(n \div 10) \o <<DecimalDigits[(n % 10) + 1]>>
\* The values at the edges of the range of uint32 and of each input type.
EdgeValues == {0 - 1, 0, 1, MaxUint32 - 1, MaxUint32, MaxUint32 + 1, MaxUint32 + 2}
IntegerInputs ==
    {[type |-> t, val |-> n] :
        t \in SignedTypes \cup UnsignedTypes, n \in EdgeValues \cup {minInt, maxInt, 2 ^ IntBits - 1}}
\* float32 holds the powers of two and the small numbers, and not 2^32 - 1.
FloatInputs ==
    {[type |-> t, val |-> f] :
        t \in {"float32", "float64"},
        f \in {NaN} \cup {Float(n) : n \in {0 - 1, 0, 1, MaxUint32 + 1, FloatOfMaxInt}}}
    \cup {[type |-> "float64", val |-> Float(n)] : n \in {MaxUint32, MaxUint32 + 2}}
StringInputs ==
    {[type |-> t, val |-> s] :
        t \in {"string", "[]byte"},
        s \in {<<>>, <<"x">>, <<"-", "1">>, <<"+", "1">>, S_NaN}
              \cup {DecimalOf(n) : n \in {0, 1, MaxUint32, MaxUint32 + 1, MaxUint32 + 2}}}
OtherInputs == {[type |-> "nil", val |-> 0], [type |-> "bool", val |-> 1]}
CoerceInputs ==
    <<{in \in IntegerInputs : in.val >= MinOf(in.type) /\ in.val <= MaxOf(in.type)},
      FloatInputs, StringInputs, OtherInputs>>

InitCoerce == NoCall /\ fpc = "value" /\ fout = <<>> /\ mapping = <<>>
              /\ \E k \in DOMAIN CoerceInputs : farg \in CoerceInputs[k]
\* A call of ToUint32(v).
CallToUint32 ==
    /\ fpc = "value"
    /\ fout' \in ToUint32(farg)
    /\ fpc' = "ToUint32"
    /\ UNCHANGED <<farg, mapping, seqVars, poolVars>>
\* A call of ToIntErr(v).
CallToIntErr ==
    /\ fpc = "value"
    /\ fout' \in ToIntErr(farg)
    /\ fpc' = "ToIntErr"
    /\ UNCHANGED <<farg, mapping, seqVars, poolVars>>
\* A call of ToUint64Err(v).
CallToUint64Err ==
    /\ fpc = "value"
    /\ fout' \in ToUint64Err(farg)
    /\ fpc' = "ToUint64Err"
    /\ UNCHANGED <<farg, mapping, seqVars, poolVars>>
NextCoerce == CallToUint32 \/ CallToIntErr \/ CallToUint64Err
SpecCoerce == InitCoerce /\ [][NextCoerce]_vars

\* ------------------------------------------------------------------ claims
Done == pc = "done"
\* The call got a response from client.Do and went on to read its body.
GotResponse == Done /\ ~(call.fn = "HttpUrlStruct" /\ call.req.isNil)
               /\ EarlyErr(call.a, call.e) = NoErr /\ ~DoErr(call.a, call.e)
\* The effective maxResponseBytes of the call.
Cap == IF call.a.MaxResponseSize < 1 THEN 200 * 1024 * 1024 ELSE call.a.MaxResponseSize
\* The Content-Encoding of the response, and the errors of decompression.
Encoding == HeaderGet(call.e.resp.Header, T_ContentEncoding)
ReaderErrors == {"gzip reader", "deflate reader", "zstd reader"}
ReadErrors == {"gzip read", "deflate read", "brotli read", "zstd read"}
\* The whole body arrived: the stream ended with io.EOF.
BodyArrived == GotResponse /\ ~call.e.endErr

\* C1: every call of HttpUrl or HttpUrlStruct returns, and returns a non-nil
\* response whose Headers and Body are non-nil, whatever the error.
C1_AlwaysValidResponse ==
    Done => /\ ret.kind = "return"
            /\ ~ret.resp.isNil
            /\ ~ret.resp.Headers.isNil
            /\ ~ret.resp.Body.isNil

\* C2: when the response body has more bytes than the effective
\* maxResponseBytes, the call returns an error and a Body of exactly
\* maxResponseBytes bytes, the first ones received.
C2_ExceedTruncates ==
    (GotResponse /\ Len(call.e.wire) > Cap) =>
        /\ ret.kind = "return"
        /\ ret.err # NoErr
        /\ ret.resp.Body.data = SubSeq(call.e.wire, 1, Cap)

\* The cookies of a cookie string: the pairs between ";", trimmed, each
\* name=value; a later pair of the same name replaces an earlier one.
RECURSIVE CookiesOfPairs(_, _)
CookiesOfPairs(m, pairs) ==
    IF pairs = <<>> THEN m
    ELSE LET t == TrimSpace(Head(pairs))
             i == IndexOf(t, "=")
             name == IF i = 0 THEN t ELSE TrimSpace(SubSeq(t, 1, i - 1))
             value == IF i = 0 THEN <<>> ELSE TrimSpace(SubSeq(t, i + 1, Len(t)))
         IN CookiesOfPairs(IF name = <<>> THEN m
                           ELSE [n \in DOMAIN m \cup {name} |-> IF n = name THEN value ELSE m[n]],
                           Tail(pairs))
CookiesOf(m, str) == CookiesOfPairs(m, Split(str, ";"))
\* The cookies the request carries: those of its Cookie header values.
RECURSIVE CookiesOfValues(_, _)
CookiesOfValues(m, vals) == IF vals = <<>> THEN m
                            ELSE CookiesOfValues(CookiesOf(m, Head(vals)), Tail(vals))
SentCookies == IF T_Cookie \in DOMAIN sent.header
               THEN CookiesOfValues(EmptyHeader, sent.header[T_Cookie])
               ELSE EmptyHeader
\* The values of the Cookie lines of the header text (the key compared
\* without regard to case).
LowerText(t) == [i \in 1 .. Len(t) |-> ToLower(t[i])]
CookieLineValues(text) ==
    LET lines == ScanLines(text)
        isCookie(l) == Len(SplitN2(l)) = 2 /\ LowerText(TrimSpace(SplitN2(l)[1])) = LowerText(T_Cookie)
        ix == {i \in 1 .. Len(lines) : isCookie(lines[i])}
    IN {TrimSpace(SplitN2(lines[i])[2]) : i \in ix}
\* The merge by name of the header's cookies and the explicit ones, the
\* explicit ones applied last.
MergedCookies(headerCookie, explicit) == CookiesOf(CookiesOf(EmptyHeader, headerCookie), explicit)

\* C3: with one Cookie line in the header text and a non-empty explicit cookie
\* string, the request carries the merge by name of both, the explicit
\* string's value winning: "a=1; b=2" with "b=9" gives {a: 1, b: 9}.
C3_ExplicitCookieWins ==
    (Done /\ sent.written /\ call.a.cookieGo # <<>>
          /\ Cardinality(CookieLineValues(call.a.headersTextGo)) = 1) =>
        \A hc \in CookieLineValues(call.a.headersTextGo) :
            SentCookies = MergedCookies(hc, call.a.cookieGo)

\* C6 as stated: when decompression fails, at either step, the call returns
\* an error and the still-compressed bytes as received.
C6_DecompressFailKeepsRaw ==
    (GotResponse /\ ret.err \in (ReaderErrors \cup ReadErrors)) =>
        ret.resp.Body.data = call.e.wire
\* C6 as amended: a failure to create the decoder returns the error and the
\* still-compressed bytes as received; a failure to read the decoded stream
\* returns the error and an empty Body.
C6_DecompressFailBody ==
    (GotResponse /\ ret.kind = "return"
                 /\ Encoding \in {T_gzip, T_deflate, T_br, T_zstd}
                 /\ ~call.e.endErr /\ Len(call.e.wire) <= Cap) =>
        /\ (Encoding = T_gzip /\ GzipNewReaderErr(call.e.wire)) \/
           (Encoding = T_deflate /\ ZlibNewReaderErr(call.e.wire))
             => (ret.err \in ReaderErrors /\ ret.resp.Body.data = call.e.wire)
        /\ ret.err \in ReaderErrors => ret.resp.Body.data = call.e.wire
        /\ ret.err \in ReadErrors => ret.resp.Body.data = <<>>
        /\ ret.err \in ReaderErrors \cup ReadErrors \cup {NoErr}
C6_Witness == GotResponse /\ ret.err = "gzip read" /\ Len(call.e.wire) = 3
              /\ ret.resp.Body.data = <<>>

\* The frames a server makes of a plaintext, one per encoding.
EncodeAs(enc, p) == IF enc = T_gzip THEN Frame(GzipMagic, p)
                    ELSE IF enc = T_deflate THEN Frame(ZlibMagic, p)
                    ELSE IF enc = T_br THEN Frame(<<>>, p)
                    ELSE Frame(ZstdMagic, p)
\* C7: a body encoded with gzip, deflate, br or zstd, sent with the matching
\* Content-Encoding and within the size cap, comes back as the plaintext,
\* with a nil error.
C7_RoundTrip ==
    \A enc \in {T_gzip, T_deflate, T_br, T_zstd}, p \in Bodies :
        (BodyArrived /\ Encoding = enc /\ call.e.wire = EncodeAs(enc, p) /\ Len(call.e.wire) <= Cap) =>
            /\ ret.kind = "return"
            /\ ret.err = NoErr
            /\ ret.resp.Body.data = p

\* C8: with no Content-Encoding, or one that is not gzip, deflate, br or zstd,
\* a body within the size cap is returned byte for byte, with a nil error.
C8_PassThrough ==
    (BodyArrived /\ Encoding \notin {T_gzip, T_deflate, T_br, T_zstd} /\ Len(call.e.wire) <= Cap) =>
        /\ ret.kind = "return"
        /\ ret.err = NoErr
        /\ ret.resp.Body.data = call.e.wire

\* C9: an error raised after the response headers were received (size limit,
\* decompression) comes with the status code, protocol, status, headers,
\* status line and formatted headers of the response received.
C9_MetadataKept ==
    (Done /\ ret.kind = "return"
          /\ ret.err \in {"response exceeds max size"} \cup ReaderErrors \cup ReadErrors) =>
        /\ ~ret.resp.isNil
        /\ ret.resp.StatusCode = call.e.resp.StatusCode
        /\ ret.resp.Proto = call.e.resp.Proto
        /\ ret.resp.Status = call.e.resp.Status
        /\ ret.resp.Headers.data = call.e.resp.Header
        /\ ret.resp.StatusLine = call.e.resp.Proto \o <<" ">> \o call.e.resp.Status \o <<"\r", "\n">>
        /\ \E o \in Orders(call.e.resp.Header) :
              ret.resp.RawHeaders = formatHeaders(call.e.resp.Header, o)
C9_Witness == Done /\ ret.err = "response exceeds max size" /\ ret.resp.StatusCode = 302
              /\ Len(ret.resp.RawHeaders) > 0 /\ Len(ret.resp.Body.data) = 1

\* C10: a call that fails before a response is received (proxy URL, HTTP/2
\* configuration, request construction, sending) returns a non-nil error and
\* the zero response.
C10_EarlyFailureZeroResponse ==
    (Done /\ call.fn = "HttpUrl"
          /\ \/ (call.a.proxyGo # <<>> /\ UrlParseErr(call.a.proxyGo))
             \/ call.e.h2Fail
             \/ NewRequestErr(call.a.method, call.a.urlStr)
             \/ call.e.sendFail) =>
        /\ ret.kind = "return"
        /\ ret.err \in {"parsing proxy URL", "http2 configure", "new request", "parsing headers",
                        "sending request"}
        /\ ~ret.resp.isNil
        /\ ret.resp.StatusCode = 0
        /\ ret.resp.Proto = <<>> /\ ret.resp.Status = <<>>
        /\ ret.resp.StatusLine = <<>> /\ ret.resp.RawHeaders = <<>>
        /\ ~ret.resp.Headers.isNil /\ ret.resp.Headers.data = EmptyHeader
        /\ ~ret.resp.Body.isNil /\ ret.resp.Body.data = <<>>
C10_Witness == Done /\ call.fn = "HttpUrl" /\ call.e.sendFail /\ ret.err = "sending request"
               /\ ~call.e.h2Fail /\ call.a.proxyGo = P_proxy1

\* The timeout of the client is a positive http.Client.Timeout; when it
\* elapses the request is cancelled, which the call sees as the error of
\* client.Do (before the response headers) or of a Read of the body.
HasTimeout == call.a.timeout > 0
TimeoutBeforeHeaders == Done /\ HasTimeout /\ EarlyErr(call.a, call.e) = NoErr /\ call.e.sendFail
                        /\ ~(call.fn = "HttpUrlStruct" /\ call.req.isNil)
\* The body's stream ends with an error that a Read of the call returns.
TimeoutDuringBody == GotResponse /\ HasTimeout /\ call.e.endErr
                     /\ \/ Len(call.e.wire) <= Cap
                        \/ (Len(call.e.wire) = Cap + 1 /\ call.e.errWithData)
\* The zero response: no status, no headers, no body.
NoResponseData(r) == /\ r.StatusCode = 0 /\ r.Proto = <<>> /\ r.Status = <<>>
                     /\ r.Headers.data = EmptyHeader /\ r.StatusLine = <<>>
                     /\ r.RawHeaders = <<>> /\ r.Body.data = <<>>

\* C11 as stated: when the timeout elapses, before the response headers or
\* while the body is read, the call returns a non-nil error and a response
\* with no status, headers or body of the aborted response.
C11_TimeoutNoPartialData ==
    (TimeoutBeforeHeaders \/ TimeoutDuringBody) =>
        /\ ret.kind = "return"
        /\ ret.err # NoErr
        /\ NoResponseData(ret.resp)
\* C11 as amended: a timeout before the response headers gives a non-nil
\* error and the zero response; a timeout while the body is read gives, when
\* the call returns, a non-nil error and the status, protocol and headers of
\* the response with the bytes of the body read until then.
C11_TimeoutKeepsPartialBody ==
    /\ TimeoutBeforeHeaders =>
          /\ ret.kind = "return" /\ ret.err = "sending request"
          /\ ~ret.resp.isNil /\ NoResponseData(ret.resp)
    /\ (TimeoutDuringBody /\ ret.kind = "return") =>
          /\ ret.err = "reading body"
          /\ ~ret.resp.isNil
          /\ ret.resp.StatusCode = call.e.resp.StatusCode
          /\ ret.resp.Proto = call.e.resp.Proto
          /\ ret.resp.Status = call.e.resp.Status
          /\ ret.resp.Headers.data = call.e.resp.Header
          /\ ret.resp.Body.data = call.e.wire
C11_Witness == TimeoutDuringBody /\ ret.err = "reading body" /\ ret.resp.StatusCode = 200
               /\ Len(ret.resp.Body.data) = 2 /\ call.fn = "HttpUrl"

\* C12: with MaxResponseSize below 1 the cap applied to the body is
\* 200 * 1024 * 1024 bytes, in HttpUrl and in HttpUrlStruct: the reader of
\* the body is limited to one byte more than that.
C12_DefaultCap ==
    (GotResponse /\ (IF call.fn = "HttpUrlStruct" THEN call.req.MaxResponseSize
                                                  ELSE call.a.MaxResponseSize) < 1) =>
        /\ limit = 200 * 1024 * 1024 + 1
        /\ ret.kind = "return"
        /\ ret.err # "response exceeds max size"
        /\ call.fn = "HttpUrlStruct" => reqAfter.MaxResponseSize = 200 * 1024 * 1024
C12_Witness == GotResponse /\ call.fn = "HttpUrl" /\ call.a.MaxResponseSize = -1
               /\ limit = 209715201 /\ Len(call.e.wire) = MaxBody /\ ret.err = NoErr


\* The lines of a header text as written, between the "\n".
TextLines(text) == Split(text, "\n")
HasNoColon(l) == \A i \in 1 .. Len(l) : l[i] # ":"
\* The key part of a line: the text before the first colon, trimmed.
KeyPart(l) == TrimSpace(SubSeq(l, 1, IndexOf(l, ":") - 1))
ValuePart(l) == TrimSpace(SubSeq(l, IndexOf(l, ":") + 1, Len(l)))
HasEmptyKey(l) == ~HasNoColon(l) /\ KeyPart(l) = <<>>
\* The text with the lines that satisfy Drop taken out.
WithoutLines(text, Drop(_)) == Join(SelectSeq(TextLines(text), LAMBDA l : ~Drop(l)))
\* The call's arguments with another header text.
WithHeaders(text) == [call.a EXCEPT !.headersTextGo = text]

\* C13: a line of the header text without a colon is ignored: the request
\* gets the headers it would get with the line removed from the text, and
\* the line causes no error.
C13_NoColonLineIgnored ==
    (Done /\ call.fn = "HttpUrl"
          /\ \E i \in DOMAIN TextLines(call.a.headersTextGo) :
                HasNoColon(TextLines(call.a.headersTextGo)[i])) =>
        LET without == WithHeaders(WithoutLines(call.a.headersTextGo, HasNoColon))
        IN /\ ret.err # "parsing headers"
           /\ sent = SentOf(without, call.e)
           /\ ret = HttpUrl(without, call.e)

\* C14: a line whose key part is empty is skipped silently: the request gets
\* no header with an empty name, and the call returns what it returns with
\* the line removed.
C14_EmptyKeySkipped ==
    (Done /\ call.fn = "HttpUrl"
          /\ \E i \in DOMAIN TextLines(call.a.headersTextGo) :
                HasEmptyKey(TextLines(call.a.headersTextGo)[i])) =>
        LET without == WithHeaders(WithoutLines(call.a.headersTextGo, HasEmptyKey))
        IN /\ sent.called => <<>> \notin DOMAIN sent.header
           /\ ret = HttpUrl(without, call.e)

\* C15: every "Key: Value" line of the header text has its value among the
\* values of its header in the request, also when several lines name the
\* same header.
C15_AllValuesRetained ==
    (Done /\ sent.called) =>
        \A i \in DOMAIN ScanLines(call.a.headersTextGo) :
            LET l == ScanLines(call.a.headersTextGo)[i]
                k == CanonicalMIMEHeaderKey(KeyPart(l))
            IN ~HasNoColon(l) =>
                  /\ k \in DOMAIN sent.header
                  /\ \E j \in DOMAIN sent.header[k] : sent.header[k][j] = ValuePart(l)

\* A cookie value without its control bytes.
StripCtl(v) == SelectSeq(v, LAMBDA c : ~IsCtl(c))
HasCtl(v) == \E i \in 1 .. Len(v) : IsCtl(v[i])
\* C16: a cookie pair, of the explicit cookie string or of a Cookie line of
\* the header text, whose value holds a control byte is sent, with the
\* control bytes taken out of its value and the other bytes kept in order.
C16_ControlBytesStripped ==
    (Done /\ call.fn = "HttpUrl" /\ EarlyErr(call.a, call.e) = NoErr /\ ~call.e.sendFail) =>
        \A src \in {call.a.cookieGo} \cup CookieLineValues(call.a.headersTextGo) :
            \A n \in DOMAIN CookiesOf(EmptyHeader, src) :
                HasCtl(CookiesOf(EmptyHeader, src)[n]) =>
                    /\ sent.written
                    /\ n \in DOMAIN SentCookies
                    /\ SentCookies[n] = StripCtl(CookiesOf(EmptyHeader, src)[n])

\* The arguments the claim gives HttpUrl for a request: the fields, with
\* Timeout <= 0 as 30, MaxResponseSize < 1 as 200 MiB, nil PostData as empty.
DefaultedArgs(req) ==
    [urlStr |-> req.URL, method |-> req.Method,
     postData |-> IF req.PostData.isNil THEN [isNil |-> FALSE, data |-> <<>>] ELSE req.PostData,
     cookieGo |-> req.Cookie, headersTextGo |-> req.Headers,
     allowRedirects |-> req.AllowRedirects, proxyGo |-> req.Proxy,
     timeout |-> IF req.Timeout <= 0 THEN 30 ELSE req.Timeout,
     MaxResponseSize |-> IF req.MaxResponseSize < 1 THEN 200 * 1024 * 1024 ELSE req.MaxResponseSize,
     ignoreCertErrors |-> req.IgnoreCertErrors]
\* C17: for a non-nil request, HttpUrlStruct returns what HttpUrl returns for
\* the request's fields after the defaults, builds the same client and sends
\* the same request.
C17_StructDelegates ==
    (Done /\ call.fn = "HttpUrlStruct" /\ ~call.req.isNil) =>
        /\ ret = HttpUrl(DefaultedArgs(call.req), call.e)
        /\ client = ClientBuilt(DefaultedArgs(call.req), call.e)
        /\ sent = SentOf(DefaultedArgs(call.req), call.e)
        /\ limit = LimitOf(DefaultedArgs(call.req), call.e)
C17_Witness == Done /\ call.fn = "HttpUrlStruct" /\ ~call.req.isNil
               /\ call.req.Timeout = 0 /\ call.req.PostData.isNil /\ call.req.MaxResponseSize = 0
               /\ call.req.Proxy = P_proxy2 /\ ~call.req.AllowRedirects
               /\ client.built /\ client.c.Timeout = 30 /\ sent.called /\ sent.body = <<>>
               /\ ret.err = NoErr

\* C26: HttpUrlStruct leaves every field of the caller's HttpRequest as it
\* was before the call, also when PostData was nil, Timeout <= 0 or
\* MaxResponseSize < 1.
C26_RequestUnchanged ==
    (Done /\ call.fn = "HttpUrlStruct") => reqAfter = call.req
\* What the call does leave alone: a nil request, the seven other fields, and
\* the three fields when they needed no default.
C26_OtherFieldsUnchanged ==
    (Done /\ call.fn = "HttpUrlStruct") =>
        /\ [reqAfter EXCEPT !.PostData = call.req.PostData, !.Timeout = call.req.Timeout,
                            !.MaxResponseSize = call.req.MaxResponseSize] = call.req
        /\ ~call.req.PostData.isNil => reqAfter.PostData = call.req.PostData
        /\ call.req.Timeout > 0 => reqAfter.Timeout = call.req.Timeout
        /\ call.req.MaxResponseSize >= 1 => reqAfter.MaxResponseSize = call.req.MaxResponseSize

\* What io.ReadAll took from the connection through the LimitedReader.
BytesRead == ReadAllLimited(call.e.wire, call.e.endErr, call.e.errWithData, limit).body
SizeError == ret.kind = "return" /\ ret.err = "response exceeds max size"
\* C28: the size error is reported if and only if the received body has at
\* least maxResponseBytes + 1 bytes; a body of maxResponseBytes bytes or fewer
\* is returned complete with no size error, and at most maxResponseBytes + 1
\* bytes are read from the connection.
C28_SizeErrorIffExceeds ==
    GotResponse =>
        /\ ret.kind = "return"
        /\ SizeError <=> Len(call.e.wire) >= Cap + 1
        /\ (Len(call.e.wire) <= Cap /\ Encoding = <<>>) => ret.resp.Body.data = call.e.wire
        /\ Len(BytesRead) <= Cap + 1
\* The same, apart from a cap of MaxInt64 (C1) and from a read error that
\* comes with byte maxResponseBytes + 1 (C2).
C28_SizeErrorIffExceedsElsewhere ==
    (GotResponse /\ Cap # MaxInt64
     /\ ~(Len(call.e.wire) = Cap + 1 /\ call.e.endErr /\ call.e.errWithData)) =>
        /\ ret.kind = "return"
        /\ SizeError <=> Len(call.e.wire) >= Cap + 1
        /\ (Len(call.e.wire) <= Cap /\ Encoding = <<>>) => ret.resp.Body.data = call.e.wire
        /\ Len(BytesRead) <= Cap + 1

\* C29: the cap is checked on the bytes as received, before decompression: a
\* received body over the cap is not decompressed and Body is its first
\* maxResponseBytes bytes, still encoded; a body that fits is decompressed
\* with no cap, whatever the length of the result.
C29_CapBeforeDecompression ==
    GotResponse =>
        /\ ret.kind = "return"
        /\ Len(call.e.wire) > Cap =>
              /\ ret.err # NoErr
              /\ ret.resp.Body.data = SubSeq(call.e.wire, 1, Cap)
        /\ (Len(call.e.wire) <= Cap /\ ~call.e.endErr) =>
              /\ ret.err = Decompress(Encoding, call.e.wire).err
              /\ ret.resp.Body.data = Decompress(Encoding, call.e.wire).body
\* The same, apart from a cap of MaxInt64 (C1) and from a read error that
\* comes with byte maxResponseBytes + 1 (C2).
C29_CapBeforeDecompressionElsewhere ==
    (GotResponse /\ Cap # MaxInt64
     /\ ~(Len(call.e.wire) = Cap + 1 /\ call.e.endErr /\ call.e.errWithData)) =>
        /\ ret.kind = "return"
        /\ Len(call.e.wire) > Cap =>
              /\ ret.err # NoErr
              /\ ret.resp.Body.data = SubSeq(call.e.wire, 1, Cap)
        /\ (Len(call.e.wire) <= Cap /\ ~call.e.endErr) =>
              /\ ret.err = Decompress(Encoding, call.e.wire).err
              /\ ret.resp.Body.data = Decompress(Encoding, call.e.wire).body

\* ---- specification SpecFormat
\* The (key, index) pairs of a header map, and the place of a key in an order.
HeaderPairs(h) == {p \in (DOMAIN h) \X (1 .. MaxValues) : p[2] <= Len(h[p[1]])}
PlaceOf(order, k) == CHOOSE i \in DOMAIN order : order[i] = k
\* The line of the pair p in the output: after the lines of the keys that
\* come earlier, at the index of the value.
LineNumber(h, order, p) ==
    Cardinality({q \in HeaderPairs(h) : PlaceOf(order, q[1]) < PlaceOf(order, p[1])}) + p[2]
\* C18: formatHeaders gives one line "Key: Value\r\n" per (key, value) pair:
\* as many lines as there are values, the lines of a key together and in the
\* order of its values, nothing for a key without values; the status line is
\* Proto, a space, Status and "\r\n".
C18_OneLinePerValue ==
    fpc = "output" =>
        LET h == farg.resp.Header
            out == fout.RawHeaders
            lines == ScanLines(out)
        IN /\ Len(lines) = Cardinality(HeaderPairs(h))
           /\ Cardinality({i \in DOMAIN out : out[i] = "\n"}) = Len(lines)
           /\ \A i \in DOMAIN out : out[i] = "\n" => (i > 1 /\ out[i - 1] = "\r")
           /\ out # <<>> => out[Len(out)] = "\n"
           /\ \A p \in HeaderPairs(h) :
                 lines[LineNumber(h, farg.order, p)] = p[1] \o <<":", " ">> \o h[p[1]][p[2]]
           /\ fout.StatusLine = farg.resp.Proto \o <<" ">> \o farg.resp.Status \o <<"\r", "\n">>
C18_Witness == /\ fpc = "output"
               /\ DOMAIN farg.resp.Header = FormatKeys
               /\ farg.resp.Header[T_XA] = <<T_1, T_2>>
               /\ farg.resp.Header[T_SetCookie] = <<>>
               /\ farg.order = <<T_SetCookie, T_XA, T_ContentEncoding>>
               /\ Len(ScanLines(fout.RawHeaders)) = 3
               /\ farg.resp.Proto = T_HTTP2

\* ---- specification SpecCsv
\* The header call and the row call of a finished run.
CsvDone == fpc = "output"
Distinct(s) == \A i, j \in DOMAIN s : i # j => s[i] # s[j]
\* C19: after the header call on an empty mapping with pairwise distinct
\* header fields, the row call for header[i] returns (row[i], nil) when the
\* row has an i-th field and ("", error) when it has not; a field name that
\* is not in the mapping returns ("", error); with a nil mapping pointer both
\* calls return an error.
C19_HeaderThenRow ==
    (CsvDone /\ Len(farg) = 2) =>
        LET header == farg[1].fields
            row == farg[2].fields
            name == farg[2].fieldName
        IN /\ mapping.ptrNil => (fout[1].err # NoErr /\ fout[2].err # NoErr)
           /\ (~mapping.ptrNil /\ Distinct(header)) =>
                 /\ fout[1] = [kind |-> "return", val |-> "", err |-> NoErr]
                 /\ \A i \in DOMAIN header :
                       name = header[i] =>
                          IF i <= Len(row)
                          THEN fout[2].val = row[i] /\ fout[2].err = NoErr
                          ELSE fout[2].val = "" /\ fout[2].err # NoErr
                 /\ (\A i \in DOMAIN header : name # header[i]) =>
                       (fout[2].val = "" /\ fout[2].err # NoErr)
C19_Witness == /\ CsvDone /\ Len(farg) = 2
               /\ farg[1].fields = <<"id", "name">>
               /\ farg[2] = [fields |-> <<"1", "Tom">>, isHeader |-> FALSE, fieldName |-> "name"]
               /\ fout[2] = [kind |-> "return", val |-> "Tom", err |-> NoErr]
               /\ mapping.data["name"] = 1

\* The header calls made so far, and the last place of a name in a header.
HeaderCalls == {i \in DOMAIN farg : farg[i].isHeader}
LastPlace(header, name) ==
    CHOOSE i \in DOMAIN header : header[i] = name /\ \A j \in DOMAIN header : header[j] = name => j <= i
Contains(header, name) == \E i \in DOMAIN header : header[i] = name
\* The latest header call whose header contains the name.
LatestWith(name) ==
    CHOOSE i \in HeaderCalls : /\ Contains(farg[i].fields, name)
                               /\ \A j \in HeaderCalls : Contains(farg[j].fields, name) => j <= i
\* C30: header calls on a mapping only add or overwrite entries: after any
\* sequence of them every field name of every header is a key, with its index
\* in the latest header that contains it (the last index when the name is
\* repeated there), and a row lookup by a name that the latest header lacks
\* succeeds with the index an earlier header gave it.
C30_HeadersOnlyAdd ==
    (fpc \in {"mapped", "output"} /\ ~mapping.ptrNil /\ ~mapping.mapNil) =>
        /\ DOMAIN mapping.data = {n \in CsvNames : \E i \in HeaderCalls : Contains(farg[i].fields, n)}
        /\ \A n \in DOMAIN mapping.data :
              mapping.data[n] = LastPlace(farg[LatestWith(n)].fields, n) - 1
        /\ CsvDone =>
              LET row == farg[Len(farg)].fields
                  name == farg[Len(farg)].fieldName
              IN name \in DOMAIN mapping.data =>
                    IF mapping.data[name] < Len(row)
                    THEN fout[Len(fout)] = [kind |-> "return", val |-> row[mapping.data[name] + 1],
                                            err |-> NoErr]
                    ELSE fout[Len(fout)].err = "index out of range"
\* Two headers, the second without "id" and with "name" twice, and a row
\* lookup of "id" that succeeds with the index of the first header.
C30_Witness ==
    /\ CsvDone /\ Len(farg) = 3
    /\ farg[1].fields = <<"name", "id">>
    /\ farg[2].fields = <<"name", "name">>
    /\ farg[3] = [fields |-> <<"Tom", "1">>, isHeader |-> FALSE, fieldName |-> "id"]
    /\ fout[3] = [kind |-> "return", val |-> "1", err |-> NoErr]
    /\ mapping.data = [n \in CsvNames |-> 1]

\* ---- specification SpecText
\* sub lies in s at the offset i (from 0).
OccursAt(s, sub, i) == i >= 0 /\ i + Len(sub) <= Len(s)
                       /\ \A k \in 1 .. Len(sub) : s[i + k] = sub[k]
\* The offsets of start in s, and those of end behind the first start.
StartOffsets(s, start) == {i \in 0 .. Len(s) : OccursAt(s, start, i)}
FirstStart(s, start) == CHOOSE i \in StartOffsets(s, start) : \A j \in StartOffsets(s, start) : i <= j
EndOffsets(s, start, end) == {j \in 0 .. Len(s) : OccursAt(s, end, j)
                                                   /\ j >= FirstStart(s, start) + Len(start)}
FirstEnd(s, start, end) == CHOOSE j \in EndOffsets(s, start, end) :
                              \A k \in EndOffsets(s, start, end) : j <= k
\* C20: GetTextTwoMiddle(src, start, end, 0, "", false), start and end not
\* empty, start in src and end behind its first occurrence, returns the text
\* between the first start and the first end behind it, and the position
\* just past that end: src[p-len(end):p] = end and
\* src[p-len(end)-len(t):p-len(end)] = t.  "AAstartXendBB" with "start" and
\* "end" gives "X" and 11.
C20_TextBetweenMarkers ==
    (fpc = "output" /\ farg.startPosition = 0 /\ farg.offset = <<>> /\ ~farg.fallbackToSource
                    /\ farg.startText # <<>> /\ farg.endText # <<>>
                    /\ StartOffsets(farg.sourceText, farg.startText) # {}
                    /\ EndOffsets(farg.sourceText, farg.startText, farg.endText) # {}) =>
        LET src == farg.sourceText
            i == FirstStart(src, farg.startText)
            j == FirstEnd(src, farg.startText, farg.endText)
            p == fout.pos
            t == fout.text
        IN /\ t = SubSeq(src, i + Len(farg.startText) + 1, j)
           /\ p = j + Len(farg.endText)
           /\ SubSeq(src, p - Len(farg.endText) + 1, p) = farg.endText
           /\ SubSeq(src, p - Len(farg.endText) - Len(t) + 1, p - Len(farg.endText)) = t
           /\ (src = S_Example /\ farg.startText = S_start /\ farg.endText = S_end) =>
                 (t = <<"X">> /\ p = 11)
C20_Witness == /\ fpc = "output"
               /\ farg = TextArgs(S_Example, S_start, S_end, 0, <<>>, FALSE)
               /\ fout = [pos |-> 11, text |-> <<"X">>]


\* C21: GetTextTwoMiddleBytes returns, for the bytes of the strings, the
\* position GetTextTwoMiddle returns for the strings and the bytes of the text
\* it returns, on the found path and on every not-found path.
C21_BytesAgreesWithString ==
    fpc = "outputBytes" =>
        LET str == GetTextTwoMiddle(farg.sourceText, farg.startText, farg.endText,
                                    farg.startPosition, farg.offset, farg.fallbackToSource)
        IN /\ fout.ret.pos = str.pos
           /\ fout.ret.text.data = str.text
C21_Witness == /\ fpc = "outputBytes"
               /\ farg = TextArgs(<<"a", "b", "a", "b">>, <<"b">>, <<"b">>, 1, <<"a">>, TRUE)
               /\ fout.ret.pos = -1
               /\ fout.ret.text = Bytes(<<"a", "b", "a", "b">>)


\* The least offset at or after `from` where sub lies in s, -1 when none.
FirstFrom(s, sub, from) ==
    LET at == {i \in from .. Len(s) : OccursAt(s, sub, i)}
    IN IF at = {} THEN 0 - 1 ELSE CHOOSE i \in at : \A j \in at : i <= j
\* Where the search of a call stands in the source after the start position,
\* after the anchor and after the start marker, when each is found.
AfterPosition == IF farg.startPosition > 0 THEN farg.startPosition ELSE 0
AfterAnchor == IF farg.offset = <<>> THEN AfterPosition
               ELSE FirstFrom(farg.sourceText, farg.offset, AfterPosition) + Len(farg.offset)
AfterStart == IF farg.startText = <<>> THEN AfterAnchor
              ELSE FirstFrom(farg.sourceText, farg.startText, AfterAnchor) + Len(farg.startText)
\* The not-found paths: the start position beyond the source, the anchor
\* absent, the start marker absent, the end marker absent behind it.
PositionBeyond == farg.startPosition > Len(farg.sourceText)
AnchorAbsent == /\ ~PositionBeyond /\ farg.offset # <<>>
                /\ FirstFrom(farg.sourceText, farg.offset, AfterPosition) = -1
StartAbsent == /\ ~PositionBeyond /\ ~AnchorAbsent /\ farg.startText # <<>>
               /\ FirstFrom(farg.sourceText, farg.startText, AfterAnchor) = -1
EndAbsent == /\ ~PositionBeyond /\ ~AnchorAbsent /\ ~StartAbsent /\ farg.endText # <<>>
             /\ FirstFrom(farg.sourceText, farg.endText, AfterStart) = -1
NotFoundPath == PositionBeyond \/ AnchorAbsent \/ StartAbsent \/ EndAbsent
\* C27: on every not-found path GetTextTwoMiddle and GetTextTwoMiddleBytes
\* return the position -1 and, as content, the whole original source when
\* fallbackToSource is true and nothing when it is false; on no other path
\* is the position -1.
C27_NotFoundResult ==
    /\ (fpc = "output" /\ NotFoundPath) =>
          /\ fout.pos = -1
          /\ fout.text = IF farg.fallbackToSource THEN farg.sourceText ELSE <<>>
    /\ (fpc = "outputBytes" /\ NotFoundPath) =>
          /\ fout.ret.pos = -1
          /\ fout.ret.text.data = IF farg.fallbackToSource THEN farg.sourceText ELSE <<>>
          /\ farg.fallbackToSource => fout.ret.text = fout.source
    /\ (fpc = "output" /\ ~NotFoundPath) => fout.pos >= 0
    /\ (fpc = "outputBytes" /\ ~NotFoundPath) => fout.ret.pos >= 0
C27_Witness == /\ fpc = "output" /\ EndAbsent
               /\ farg = TextArgs(<<"b", "a", "b", "a">>, <<"a">>, <<"b">>, 2, <<"b">>, TRUE)
               /\ fout = [pos |-> 0 - 1, text |-> <<"b", "a", "b", "a">>]

\* ---- specification SpecCoerce
Coerced == fpc \in {"ToUint32", "ToIntErr", "ToUint64Err"}
\* C22: a coercion function returns normally for every input of every type
\* its type switch lists: it returns a value, or (the Err variants) a value or
\* an error, and never panics.
C22_NeverPanics == Coerced => fout.kind = "return"
\* The coercions that return normally do so with a value or with an error.
C22_ReturnsOtherwise ==
    Coerced /\ ~(farg.type \in {"int8", "int16", "int32", "uint", "uint8", "uint16", "uint32"})
        => fout.kind = "return"

\* The number an input stands for: the value of an integer or of a float that
\* is not NaN, and the number a string or a []byte spells.
IsNumeric(v) ==
    \/ v.type \in SignedTypes \cup UnsignedTypes
    \/ v.type \in {"float32", "float64"} /\ ~v.val.nan
    \/ v.type \in {"string", "[]byte"} /\ ~ParseFloat(v.val).err /\ ~ParseFloat(v.val).f.nan
NumberOf(v) == IF v.type \in SignedTypes \cup UnsignedTypes THEN v.val
               ELSE IF v.type \in {"float32", "float64"} THEN v.val.val
               ELSE ParseFloat(v.val).f.val
\* C23: ToUint32 returns 0 for every numeric input that is negative or
\* greater than 2^32 - 1, and the value itself for every integer input in
\* [0, 2^32 - 1]; it never returns a wrapped or truncated value.
C23_ZeroOutOfRange ==
    fpc = "ToUint32" /\ IsNumeric(farg) =>
        /\ fout.kind = "return"
        /\ NumberOf(farg) < 0 \/ NumberOf(farg) > MaxUint32 => fout.val = 0
        /\ farg.type \in SignedTypes \cup UnsignedTypes
              /\ NumberOf(farg) >= 0 /\ NumberOf(farg) <= MaxUint32
           => fout.val = NumberOf(farg)
\* What holds of ToUint32 on the types other than int, uint8, uint16, uint32
\* and float32.
C23_ZeroOutOfRangeElsewhere ==
    fpc = "ToUint32" /\ IsNumeric(farg)
    /\ ~(farg.type \in {"int", "uint8", "uint16", "uint32", "float32"}) =>
        /\ fout.kind = "return"
        /\ NumberOf(farg) < 0 \/ NumberOf(farg) > MaxUint32 => fout.val = 0
        /\ NumberOf(farg) >= 0 /\ NumberOf(farg) <= MaxUint32 => fout.val = NumberOf(farg)

InFlight(c) == cpc[c] \in {"client", "ready"}
C24_NoTransportCreated ==
    \A i \in DOMAIN transports : ~ProxyErr(transports[i].proxy)
\* C24 as amended: a call whose proxy does not parse returns its error with
\* no request sent and no transport kept: the transport it made at line 649 is
\* used by no request and held by no other caller, and no call with that proxy
\* ever gets a client or sends, so a later call fails the same way.
C24_ProxyErrKeepsNothing ==
    /\ \A c \in Callers : cpc[c] = "failed" =>
          /\ ckey[c].proxy = U_bad
          /\ \A i \in DOMAIN log : log[i].transport # ctr[c]
          /\ \A d \in Callers : d # c => ctr[d] # ctr[c]
    /\ \A c \in Callers : InFlight(c) => ckey[c].proxy # U_bad
    /\ \A i \in DOMAIN log : /\ log[i].key.proxy # U_bad
                             /\ transports[log[i].transport].proxy # U_bad
\* Two calls with the proxy that does not parse: the first has returned, the
\* second has failed in the same way.
C24_Witness ==
    \E c \in Callers :
        /\ cpc[c] = "failed"
        /\ \E i \in DOMAIN transports : i # ctr[c] /\ transports[i] = ckey[c]
        /\ \A d \in Callers : d # c => cpc[d] = "idle"

\* C25 as stated: no client is written to after it was created; its redirect
\* policy and its timeout are those it was created with.
C25_NeverWrittenAfterCreation ==
    [][\A i \in DOMAIN clients : clients'[i] = clients[i]]_vars
\* A caller holds client i and has not yet sent with it.
Configuring(c, i) == cpc[c] = "client" /\ ccl[c].id = i
\* C25 as amended: a client is written to after its creation only by the call
\* that created it, which sets the redirect policy (lines 694-699) before it
\* sends; the timeout is fixed at creation.  Every call obtains a client of
\* its own, so no caller sees a client that another is configuring, and every
\* request is sent with the policy of its own call.
C25_WrittenOnlyByCreator ==
    /\ [][\A i \in DOMAIN clients :
            /\ clients'[i].Timeout = clients[i].Timeout
            /\ clients'[i].Transport = clients[i].Transport
            /\ clients'[i] # clients[i] =>
                  \E c \in Callers :
                      /\ Configuring(c, i)
                      /\ cpc'[c] = "ready"
                      /\ \A d \in Callers : d # c => ccl[d].id # i
                      /\ \A k \in DOMAIN log : log[k].client # i]_vars
    /\ [](\A c, d \in Callers : (c # d /\ InFlight(c) /\ InFlight(d)) => ccl[c].id # ccl[d].id)
    /\ [](\A k, l \in DOMAIN log : k # l => log[k].client # log[l].client)
    /\ [](\A k \in DOMAIN log :
            log[k].policy = IF log[k].allowRedirects THEN "default" ELSE "ErrUseLastResponse")
\* Two callers with the same timeout and different redirect flags hold their
\* clients at once, one configured and one not yet.
C25_Witness ==
    \E c, d \in Callers :
        /\ cpc[c] = "ready" /\ cpc[d] = "client"
        /\ ~ccl[c].allowRedirects /\ ccl[d].allowRedirects
        /\ clients[ccl[c].id].Timeout = clients[ccl[d].id].Timeout
        /\ clients[ccl[c].id].CheckRedirect = "ErrUseLastResponse"

====
